---- MODULE Spec2Model ----
(***************************************************************************)
(* Model of the webhook schema-inference pipeline: the worker              *)
(* (EventProcessor.processEventJob), the analyzer's type tree, the         *)
(* comparator's merge, the structure fingerprint, the metadata generator   *)
(* and the file store (FileManager).                                       *)
(*                                                                         *)
(* Optional JavaScript values are sequences of length 0 or 1: <<>> is      *)
(* `undefined`, <<v>> is the value v.                                      *)
(*                                                                         *)
(* A type tree (EventStructure) is the record                              *)
(*   [type, optional, isTruncated, originalType, children, arrayItemType]  *)
(* where children is <<>> or <<f>> with f a function from keys to trees    *)
(* (a Map; the fingerprint sorts the keys, so their order is not kept) and *)
(* arrayItemType is <<>> or <<tree>>.  The fields `path` and `examples`    *)
(* of a node are not read by the fingerprint, by the version decision or   *)
(* by the field censuses, and are left out of the tree.                    *)
(***************************************************************************)
EXTENDS Integers, Sequences, FiniteSets, TLC

(***************************************************************************)
(* Bounds of the model.                                                    *)
(***************************************************************************)
\* jobs submitted in one behaviour of the worker pool
MaxJobs == 3
\* jobs submitted in one behaviour of the sequential pipeline
MaxSeqJobs == 3
\* jobs submitted in one behaviour of the store walk
MaxStoreJobs == 3
\* jobs submitted in one behaviour of the retrying pipeline
MaxRetryJobs == 2
\* file writes that fail in one behaviour
MaxFailures == 3
\* jobs the modelled pool runs at once (QUEUE_CONCURRENCY is 5 by default)
PoolSize == 2
\* jobs that wait in the queue at once (a waiting job takes no step, so adding
\* a job earlier than a worker is free for it shows no other behaviour)
MaxWaiting == 1
\* merges and store round trips applied to the trees of the tree bench
MaxTreeSteps == 2
\* jobs submitted in one behaviour of the pipeline with a reader
MaxReadJobs == 2
\* times the truncator is applied to the payload of the truncator bench
MaxTruncations == 2

(***************************************************************************)
(* Program constants.                                                      *)
(***************************************************************************)
QUEUE_MAX_ATTEMPTS == 3
TRUNCATE_MAX_LENGTH == 100

(***************************************************************************)
(* Payloads.  A payload is a JSON value:                                   *)
(*   [t |-> "number"], [t |-> "boolean"], [t |-> "null"],                  *)
(*   [t |-> "string", rep |-> r]   r = "none", or the tag the truncator    *)
(*                                 reports for this string when it cuts it *)
(*   [t |-> "object", kids |-> f]  f a function from keys to payloads      *)
(*   [t |-> "array", items |-> s]  s a sequence of payloads                *)
(***************************************************************************)
Num == [t |-> "number"]
Str == [t |-> "string", rep |-> "none"]
CutStr == [t |-> "string", rep |-> "base64"]
Obj(f) == [t |-> "object", kids |-> f]
Arr(s) == [t |-> "array", items |-> s]
NoKids == [k \in {} |-> Num]

(***************************************************************************)
(* TypeDetector.detectType and the analyzer's mapping of detected types.   *)
(***************************************************************************)
detectType(v) == v.t

mapDetectedTypeToStructureType(d) ==
  CASE d = "undefined" -> "null"
    [] d = "function" -> "object"
    [] OTHER -> d

detectArrayItemTypes(s) == { detectType(s[i]) : i \in 1..Len(s) }

(***************************************************************************)
(* EventAnalyzer.buildStructureMap.  An object always gets a children map, *)
(* also when it has no key; a non-empty array gets the tree of its first   *)
(* element, or a bare union node when its elements differ in type.         *)
(***************************************************************************)
Leaf(ty) ==
  [type |-> ty, optional |-> FALSE, isTruncated |-> <<>>, originalType |-> <<>>,
   children |-> <<>>, arrayItemType |-> <<>>]

RECURSIVE buildStructureMap(_)
buildStructureMap(v) ==
  LET d == detectType(v)
      cut == d = "string" /\ v.rep # "none"
      base == [Leaf(mapDetectedTypeToStructureType(d)) EXCEPT
                 !.isTruncated = IF cut THEN <<TRUE>> ELSE <<>>,
                 !.originalType = IF cut THEN <<v.rep>> ELSE <<>>]
  IN  IF d = "object"
        THEN [base EXCEPT
                !.children = << [k \in DOMAIN v.kids |-> buildStructureMap(v.kids[k])] >>]
      ELSE IF d = "array" /\ Len(v.items) > 0
        THEN IF Cardinality(detectArrayItemTypes(v.items)) = 1
               THEN [base EXCEPT !.arrayItemType = << buildStructureMap(v.items[1]) >>]
               ELSE [base EXCEPT !.type = "union", !.arrayItemType = << Leaf("union") >>]
      ELSE base

(***************************************************************************)
(* Hasher.normalizeStructure / hashStructure.  The fingerprint is SHA-256  *)
(* of the JSON text of the normalized structure; the model takes the       *)
(* normalized structure itself as the fingerprint (SHA-256 is treated as   *)
(* injective).  A children map that is present but empty is written as     *)
(* "children":{} and so differs from an absent one.                        *)
(***************************************************************************)
RECURSIVE normalizeStructure(_)
normalizeStructure(s) ==
  [type |-> s.type,
   optional |-> s.optional,
   children |-> IF s.children # <<>>
                  THEN << [k \in DOMAIN s.children[1] |-> normalizeStructure(s.children[1][k])] >>
                  ELSE <<>>,
   arrayItemType |-> IF s.arrayItemType # <<>>
                       THEN << normalizeStructure(s.arrayItemType[1]) >>
                       ELSE <<>>]

hashStructure(s) == normalizeStructure(s)

compareStructures(newStructure, existingStructure) ==
  hashStructure(newStructure) = hashStructure(existingStructure)

(***************************************************************************)
(* SchemaComparator.mergeStructures and its helpers.                       *)
(***************************************************************************)
\* variants of mergeTypes that the algebraic laws of the merge must tell apart:
\* the base type always wins; a union is forgotten when the update differs
mergeTypesKeepBase(baseType, updateType) == baseType

mergeTypesForgetUnion(baseType, updateType) ==
  IF baseType = updateType THEN baseType
  ELSE IF baseType = "union" THEN updateType
  ELSE "union"

mergeTypes(baseType, updateType) ==
  IF baseType = updateType THEN baseType ELSE "union"

\* variant of mergeOptional in which the base alone decides
mergeOptionalKeepBase(baseOptional, updateOptional) == baseOptional

mergeOptional(baseOptional, updateOptional) == baseOptional \/ updateOptional

\* JavaScript's a || b on two optional booleans: a when a is true, else b
JsOrBool(a, b) == IF a = <<TRUE>> THEN a ELSE b

\* JavaScript's a || b on two optional non-empty strings: a when defined, else b
JsOrTag(a, b) == IF a # <<>> THEN a ELSE b

RECURSIVE mergeStructures(_, _)
mergeChildren(baseChildren, updateChildren) ==
  IF baseChildren = <<>> /\ updateChildren = <<>> THEN <<>>
  ELSE LET bk == IF baseChildren = <<>> THEN {} ELSE DOMAIN baseChildren[1]
           uk == IF updateChildren = <<>> THEN {} ELSE DOMAIN updateChildren[1]
           merged == [k \in bk \cup uk |->
                        IF k \in bk /\ k \in uk
                          THEN mergeStructures(baseChildren[1][k], updateChildren[1][k])
                        ELSE IF k \in bk
                          THEN [baseChildren[1][k] EXCEPT !.optional = TRUE]
                        ELSE [updateChildren[1][k] EXCEPT !.optional = TRUE]]
       IN  IF bk \cup uk # {} THEN <<merged>> ELSE <<>>

mergeArrayItemTypes(baseArrayType, updateArrayType) ==
  IF baseArrayType = <<>> /\ updateArrayType = <<>> THEN <<>>
  ELSE IF baseArrayType = <<>> THEN updateArrayType
  ELSE IF updateArrayType = <<>> THEN baseArrayType
  ELSE << mergeStructures(baseArrayType[1], updateArrayType[1]) >>

mergeStructures(base, update) ==
  [type |-> mergeTypes(base.type, update.type),
   optional |-> mergeOptional(base.optional, update.optional),
   isTruncated |-> JsOrBool(base.isTruncated, update.isTruncated),
   originalType |-> JsOrTag(base.originalType, update.originalType),
   children |-> mergeChildren(base.children, update.children),
   arrayItemType |-> mergeArrayItemTypes(base.arrayItemType, update.arrayItemType)]

(***************************************************************************)
(* EventProcessor.serializeStructureForStorage and                         *)
(* reconstructStructureFromMetadata.  The stored form is the JSON object   *)
(* written into metadata.json: a children map is written only when it has  *)
(* at least one key.                                                       *)
(***************************************************************************)
RECURSIVE serializeStructureForStorage(_)
serializeStructureForStorage(node) ==
  [type |-> node.type,
   optional |-> node.optional,
   isTruncated |-> node.isTruncated,
   originalType |-> node.originalType,
   children |-> IF node.children # <<>> /\ DOMAIN node.children[1] # {}
                  THEN << [k \in DOMAIN node.children[1] |->
                             serializeStructureForStorage(node.children[1][k])] >>
                  ELSE <<>>,
   arrayItemType |-> IF node.arrayItemType # <<>>
                       THEN << serializeStructureForStorage(node.arrayItemType[1]) >>
                       ELSE <<>>]

RECURSIVE reconstructStructureFromMetadata(_)
reconstructStructureFromMetadata(node) ==
  [type |-> node.type,
   optional |-> node.optional,
   isTruncated |-> node.isTruncated,
   originalType |-> node.originalType,
   children |-> IF node.children # <<>>
                  THEN << [k \in DOMAIN node.children[1] |->
                             reconstructStructureFromMetadata(node.children[1][k])] >>
                  ELSE <<>>,
   arrayItemType |-> IF node.arrayItemType # <<>>
                       THEN << reconstructStructureFromMetadata(node.arrayItemType[1]) >>
                       ELSE <<>>]

\* the structure parseExistingStructure falls back to when nothing is saved
BasicStructure == Leaf("object")

\* every metadata record the pipeline writes for a loadable kind carries
\* savedStructure, so the branches that rebuild the tree from examples.json
\* or from a raw sample are never taken here
parseExistingStructure(metadata) ==
  IF metadata.savedStructure # <<>>
    THEN reconstructStructureFromMetadata(metadata.savedStructure[1])
    ELSE BasicStructure

(***************************************************************************)
(* SchemaGenerator.extractRequiredFields / extractOptionalFields /         *)
(* extractTruncatedFields.  A path is a sequence of keys, with "[]" for    *)
(* the step into an array's item type; the root (empty path) is not        *)
(* listed.                                                                 *)
(***************************************************************************)
\* the test each of the three traversals applies to a node
PickField(node, which) ==
  CASE which = "required" -> ~node.optional
    [] which = "optional" -> node.optional
    [] OTHER -> node.isTruncated = <<TRUE>>

RECURSIVE traverseFields(_, _, _)
traverseFields(node, path, which) ==
  (IF PickField(node, which) /\ path # <<>> THEN {path} ELSE {})
  \cup (IF node.children # <<>>
          THEN UNION { traverseFields(node.children[1][k], Append(path, k), which) :
                         k \in DOMAIN node.children[1] }
          ELSE {})
  \cup (IF node.arrayItemType # <<>>
          THEN traverseFields(node.arrayItemType[1], Append(path, "[]"), which)
          ELSE {})

extractRequiredFields(structure) == traverseFields(structure, <<>>, "required")
extractOptionalFields(structure) == traverseFields(structure, <<>>, "optional")
extractTruncatedFields(structure) == traverseFields(structure, <<>>, "truncated")

(***************************************************************************)
(* TruncateService.findTruncatedFields: the paths of the truncation        *)
(* report, which name array positions by index ("[0]").                    *)
(***************************************************************************)
IndexName(i) == CASE i = 1 -> "[0]" [] i = 2 -> "[1]" [] OTHER -> "[n]"

RECURSIVE findTruncatedFields(_, _)
findTruncatedFields(v, path) ==
  IF v.t = "string" THEN (IF v.rep # "none" THEN {path} ELSE {})
  ELSE IF v.t = "array"
    THEN UNION { findTruncatedFields(v.items[i], Append(path, IndexName(i))) :
                   i \in 1..Len(v.items) }
  ELSE IF v.t = "object"
    THEN UNION { findTruncatedFields(v.kids[k], Append(path, k)) : k \in DOMAIN v.kids }
  ELSE {}

(***************************************************************************)
(* Metadata records (metadata.json).  The timestamps and the variations    *)
(* list (always empty in the worker) are left out.  A schemaVersion that   *)
(* is undefined in the code is 0 here: the code only tests it with ||.     *)
(***************************************************************************)
\* SchemaGenerator.generateMetadata followed by the two assignments of
\* EventProcessor.generateAndSaveSchema (schemaVersion, savedStructure)
generateMetadata(eventType, structure, existingMetadata, schemaVersion) ==
  [eventType |-> eventType,
   totalReceived |-> (IF existingMetadata = <<>> THEN 0
                      ELSE existingMetadata[1].totalReceived) + 1,
   schemaVersion |-> schemaVersion,
   required |-> extractRequiredFields(structure),
   optional |-> extractOptionalFields(structure),
   truncated |-> extractTruncatedFields(structure),
   savedStructure |-> << serializeStructureForStorage(structure) >>]

\* the partial metadata of EventProcessor.updateExistingMetadata
partialMetadata(eventType, payload) ==
  [eventType |-> eventType,
   totalReceived |-> 1,
   schemaVersion |-> 0,
   required |-> {},
   optional |-> {},
   truncated |-> findTruncatedFields(payload, <<>>),
   savedStructure |-> <<>>]

\* FileManager.mergeMetadata; existing is <<>> (null) or <<record>>
mergeMetadata(existing, newMetadata) ==
  IF existing = <<>>
    THEN [newMetadata EXCEPT !.totalReceived = 1]
    ELSE [existing[1] EXCEPT
            !.totalReceived = existing[1].totalReceived + 1,
            !.schemaVersion = IF newMetadata.schemaVersion # 0
                                THEN newMetadata.schemaVersion
                                ELSE existing[1].schemaVersion,
            !.required = existing[1].required \cup newMetadata.required,
            !.optional = existing[1].optional \cup newMetadata.optional,
            !.truncated = existing[1].truncated \cup newMetadata.truncated]

(***************************************************************************)
(* SchemaGenerator.structureToZod / structureToInterface: what the two     *)
(* generated sources say about the tree (formatting left out).  A union    *)
(* is rendered from the node's examples, which the tree here does not      *)
(* carry, so it is rendered opaque.                                        *)
(***************************************************************************)
RECURSIVE structureToZod(_)
structureToZod(s) ==
  CASE s.type = "string" -> [z |-> "string", described |-> s.isTruncated = <<TRUE>>]
    [] s.type = "array" ->
         [z |-> "array",
          item |-> IF s.arrayItemType # <<>>
                     THEN << structureToZod(s.arrayItemType[1]) >> ELSE <<>>]
    [] s.type = "object" ->
         [z |-> "object",
          props |-> IF s.children # <<>>
                      THEN [k \in DOMAIN s.children[1] |->
                              [optional |-> s.children[1][k].optional,
                               schema |-> structureToZod(s.children[1][k])]]
                      ELSE [k \in {} |-> 0]]
    [] OTHER -> [z |-> s.type]

RECURSIVE structureToInterface(_)
structureToInterface(s) ==
  CASE s.type = "array" ->
         [ts |-> "array",
          item |-> IF s.arrayItemType # <<>>
                     THEN << structureToInterface(s.arrayItemType[1]) >> ELSE <<>>]
    [] s.type = "object" ->
         [ts |-> "object",
          props |-> IF s.children # <<>>
                      THEN [k \in DOMAIN s.children[1] |->
                              [optional |-> s.children[1][k].optional,
                               schema |-> structureToInterface(s.children[1][k])]]
                      ELSE [k \in {} |-> 0]]
    [] OTHER -> [ts |-> s.type]

(***************************************************************************)
(* Event kinds and store folders.  A kind is the sequence of the           *)
(* "/"-separated segments of the eventType string, and a segment is a      *)
(* sequence of characters.  FileManager.sanitizeEventType rewrites every   *)
(* character outside [a-zA-Z0-9_-] to "_"; path.join then drops empty      *)
(* segments.                                                               *)
(***************************************************************************)
SafeChars == {"p", "z", "g", "a", "w", "m", "_", "-"}

sanitizeEventType(eventType) ==
  [i \in 1..Len(eventType) |->
     [c \in 1..Len(eventType[i]) |->
        IF eventType[i][c] \in SafeChars THEN eventType[i][c] ELSE "_"]]

NonEmptySegment(seg) == seg # <<>>

pathJoin(segments) == SelectSeq(segments, NonEmptySegment)

\* the folder FileManager.getEventTypeFolder returns (and creates)
EventTypeFolder(eventType) == pathJoin(sanitizeEventType(eventType))

\* kinds the classifier emits (EventAnalyzer.extractEventType):
\*   Ping                         a direct eventType tag
\*   z_api/group                  GroupCallback without action
\*   z_api/group/add              GroupCallback with action "add"
\*   z_api/<type>                 an unlisted body.type holding a space
KPing == << <<"p">> >>
KGroup == << <<"z">>, <<"g">> >>
KGroupAdd == << <<"z">>, <<"g">>, <<"a">> >>
KSpaced == << <<"w">>, <<"m", " ", "a">> >>

(***************************************************************************)
(* The store: a function from the folders that exist to their files.  A    *)
(* file is <<>> (absent) or <<[content, by]>>, `by` being the job whose    *)
(* write produced it (what its modification time tells); metadata.json is  *)
(* <<>> or <<record>>; raw is the number of files under raw-samples.       *)
(***************************************************************************)
ArtifactFiles == {"zod", "iface", "examples"}

EmptyDir == [zod |-> <<>>, iface |-> <<>>, examples |-> <<>>, meta |-> <<>>, raw |-> 0]

\* FileManager.ensureDirectoryExists on the kind's folder
ensureDirectoryExists(st, folder) ==
  IF folder \in DOMAIN st THEN st
  ELSE [d \in DOMAIN st \cup {folder} |-> IF d = folder THEN EmptyDir ELSE st[d]]

\* every directory below the schemas directory: mkdir is recursive, so each
\* non-empty prefix of a folder exists (raw-samples holds files only)
Directories(st) ==
  UNION { { SubSeq(d, 1, n) : n \in 1..Len(d) } : d \in DOMAIN st }

isSchemaDirectory(st, dir) ==
  /\ dir \in DOMAIN st
  /\ st[dir].zod # <<>>
  /\ st[dir].iface # <<>>
  /\ st[dir].examples # <<>>
  /\ st[dir].meta # <<>>

RECURSIVE findAllEventTypes(_, _)
findAllEventTypes(st, relativePath) ==
  UNION { IF isSchemaDirectory(st, entry)
            THEN {entry}
            ELSE findAllEventTypes(st, entry) :
          entry \in { d \in Directories(st) :
                        /\ Len(d) = Len(relativePath) + 1
                        /\ SubSeq(d, 1, Len(relativePath)) = relativePath } }

\* FileManager.listEventTypes
listEventTypes(st) == findAllEventTypes(st, <<>>)

\* FileManager.loadExistingSchemas followed by existingSchemas.get(eventType):
\* <<>> or <<metadata>> (the worker reads only the metadata of the schema)
loadExistingSchema(st, eventType) ==
  IF eventType \in findAllEventTypes(st, <<>>)
    THEN st[eventType].meta
    ELSE <<>>

(***************************************************************************)
(* The worker's decisions (EventProcessor).                                *)
(***************************************************************************)
shouldUpdateSchema(newStructure, existing) ==
  IF existing = <<>> THEN TRUE
  ELSE ~compareStructures(newStructure, parseExistingStructure(existing[1]))

\* finalStructure of processEventJob when the schema is updated
finalStructure(newStructure, existing) ==
  IF existing = <<>> THEN newStructure
  ELSE mergeStructures(parseExistingStructure(existing[1]), newStructure)

\* schemaVersion of processEventJob when the schema is updated
nextSchemaVersion(existing) ==
  IF existing = <<>> THEN 1 ELSE existing[1].schemaVersion + 1

(***************************************************************************)
(* State.                                                                  *)
(*   store     the schemas directory                                       *)
(*   jobs      the jobs added to the queue, in the order they were added;  *)
(*             a job is [kind, payload, pc, attempts, existing, pending,   *)
(*             mread, err]: pc is "waiting", "running", "done" or          *)
(*             "failed"; existing is what loadExistingSchemas returned     *)
(*             for the kind; pending are the file operations of this       *)
(*             attempt still to run; mread is what updateMetadata read;    *)
(*             err says that an operation of this attempt failed           *)
(*   failures  file writes that failed so far                              *)
(*   rows      rows of the events table                                    *)
(*   reader    the read of a kind's schema in progress (loadSchema):       *)
(*             <<>> or <<[kind, pending, got]>>                            *)
(*   calc      the inputs of the pure functions under study (trees,        *)
(*             payloads, events); <<>> while the pipeline runs             *)
(***************************************************************************)
VARIABLES store, jobs, failures, rows, reader, calc

vars == <<store, jobs, failures, rows, reader, calc>>

NoStore == [d \in {} |-> EmptyDir]

Init ==
  /\ store = NoStore
  /\ jobs = <<>>
  /\ failures = 0
  /\ rows = 0
  /\ reader = <<>>
  /\ calc = <<>>

JobIds == 1..Len(jobs)

Structure(j) == buildStructureMap(jobs[j].payload)
Folder(j) == EventTypeFolder(jobs[j].kind)
Updates(j) == shouldUpdateSchema(Structure(j), jobs[j].existing)
Final(j) == finalStructure(Structure(j), jobs[j].existing)

Running == { j \in JobIds : jobs[j].pc = "running" }

\* the metadata the job hands to FileManager.updateMetadata
NewMetadata(j) ==
  IF Updates(j)
    THEN generateMetadata(jobs[j].kind, Final(j), jobs[j].existing,
                          nextSchemaVersion(jobs[j].existing))
    ELSE partialMetadata(jobs[j].kind, jobs[j].payload)

\* the content generateAndSaveSchema produces for an artifact file
Artifact(j, file) ==
  CASE file = "zod" -> structureToZod(Final(j))
    [] file = "iface" -> structureToInterface(Final(j))
    [] OTHER -> [examples |-> "examples"]

(***************************************************************************)
(* EventProcessor.addToQueue: a job for a payload of some kind.            *)
(***************************************************************************)
Waiting == { j \in JobIds : jobs[j].pc = "waiting" /\ jobs[j].attempts = 0 }

AddToQueue(kinds, shapes, max) ==
  /\ Len(jobs) < max
  /\ Cardinality(Waiting) < MaxWaiting
  /\ \E k \in kinds, p \in shapes :
       jobs' = Append(jobs, [kind |-> k, payload |-> p, pc |-> "waiting", attempts |-> 0,
                             existing |-> <<>>, pending |-> {}, mread |-> <<>>,
                             err |-> FALSE])
  /\ UNCHANGED <<store, failures, rows, reader, calc>>

(***************************************************************************)
(* processEventJob up to the end of loadExistingSchemas: a free worker     *)
(* takes the oldest waiting job (a job waiting for a retry may come back   *)
(* at any time), analyzes the event and loads the existing schemas.        *)
(***************************************************************************)
Load(j, pool) ==
  /\ jobs[j].pc = "waiting"
  /\ Cardinality(Running) < pool
  /\ \/ jobs[j].attempts > 0
     \/ \A i \in 1..(j - 1) : ~(jobs[i].pc = "waiting" /\ jobs[i].attempts = 0)
  /\ LET existing == loadExistingSchema(store, jobs[j].kind)
         update == shouldUpdateSchema(Structure(j), existing)
     IN  jobs' = [jobs EXCEPT ![j].pc = "running",
                              ![j].existing = existing,
                              ![j].pending = IF update
                                               THEN ArtifactFiles \cup {"metaRead"}
                                               ELSE {"metaRead"},
                              ![j].mread = <<>>,
                              ![j].err = FALSE]
  /\ UNCHANGED <<store, failures, rows, reader, calc>>

(***************************************************************************)
(* FileManager.saveSchema: the three artifact writes and updateMetadata    *)
(* run concurrently (Promise.all); each write is one file operation.       *)
(***************************************************************************)
WriteSchemaFile(j, file) ==
  /\ jobs[j].pc = "running"
  /\ file \in jobs[j].pending \cap ArtifactFiles
  /\ store' = [ensureDirectoryExists(store, Folder(j)) EXCEPT
                 ![Folder(j)][file] = << [content |-> Artifact(j, file), by |-> j] >>]
  /\ jobs' = [jobs EXCEPT ![j].pending = @ \ {file}]
  /\ UNCHANGED <<failures, rows, reader, calc>>

\* a write that fails: writeSchemaFile rethrows, saveSchema rejects and the
\* job's attempt fails once its other operations have settled
FailSchemaFile(j, file) ==
  /\ jobs[j].pc = "running"
  /\ file \in jobs[j].pending \cap ArtifactFiles
  /\ failures < MaxFailures
  /\ failures' = failures + 1
  /\ store' = ensureDirectoryExists(store, Folder(j))
  /\ jobs' = [jobs EXCEPT ![j].pending = @ \ {file}, ![j].err = TRUE]
  /\ UNCHANGED <<rows, reader, calc>>

(***************************************************************************)
(* FileManager.updateMetadata: read metadata.json, then write the merge.   *)
(***************************************************************************)
UpdateMetadataRead(j) ==
  /\ jobs[j].pc = "running"
  /\ "metaRead" \in jobs[j].pending
  /\ store' = ensureDirectoryExists(store, Folder(j))
  /\ jobs' = [jobs EXCEPT ![j].mread = store'[Folder(j)].meta,
                          ![j].pending = (@ \ {"metaRead"}) \cup {"metaWrite"}]
  /\ UNCHANGED <<failures, rows, reader, calc>>

UpdateMetadataWrite(j) ==
  /\ jobs[j].pc = "running"
  /\ "metaWrite" \in jobs[j].pending
  /\ store' = [store EXCEPT
                 ![Folder(j)].meta = << mergeMetadata(jobs[j].mread, NewMetadata(j)) >>]
  /\ jobs' = [jobs EXCEPT ![j].pending = @ \ {"metaWrite"}]
  /\ UNCHANGED <<failures, rows, reader, calc>>

(***************************************************************************)
(* The end of a successful attempt: saveRawSample (only when the schema    *)
(* was saved; at most 10 files are kept), then the row of the events       *)
(* table.                                                                  *)
(***************************************************************************)
KeptRawSamples == 10

Complete(j) ==
  /\ jobs[j].pc = "running"
  /\ jobs[j].pending = {}
  /\ ~jobs[j].err
  /\ store' = IF Updates(j)
                THEN [store EXCEPT ![Folder(j)].raw =
                        IF @ < KeptRawSamples THEN @ + 1 ELSE KeptRawSamples]
                ELSE store
  /\ rows' = rows + 1
  /\ jobs' = [jobs EXCEPT ![j].pc = "done"]
  /\ UNCHANGED <<failures, reader, calc>>

(***************************************************************************)
(* The end of a failed attempt: the queue retries the job until            *)
(* QUEUE_MAX_ATTEMPTS attempts were made, then keeps it in the failed set. *)
(***************************************************************************)
AttemptFailed(j) ==
  /\ jobs[j].pc = "running"
  /\ jobs[j].pending = {}
  /\ jobs[j].err
  /\ jobs' = [jobs EXCEPT ![j].attempts = @ + 1,
                          ![j].pc = IF jobs[j].attempts + 1 < QUEUE_MAX_ATTEMPTS
                                      THEN "waiting" ELSE "failed"]
  /\ UNCHANGED <<store, failures, rows, reader, calc>>

(***************************************************************************)
(* Payload shapes: an object with key "a" (a string), optionally "b" (a    *)
(* number or a string) and optionally "c" (an empty object, an empty       *)
(* array, an array of one number, or a string the truncator cuts).         *)
(***************************************************************************)
BValues == {Num, Str}
CValues == {Obj(NoKids), Arr(<<>>), Arr(<<Num>>), CutStr}

Maybe(values) == {<<>>} \cup { <<v>> : v \in values }

Shape(b, c) ==
  Obj([k \in {"a"} \cup (IF b # <<>> THEN {"b"} ELSE {}) \cup (IF c # <<>> THEN {"c"} ELSE {})
         |-> IF k = "a" THEN Str ELSE IF k = "b" THEN b[1] ELSE c[1]])

Shapes == { Shape(b, c) : b \in Maybe(BValues), c \in Maybe(CValues) }

PoolShapes == { Shape(b, <<>>) : b \in Maybe({Num}) }
PoolKinds == {KPing, KGroup}
StoreKinds == {KPing, KGroup, KGroupAdd, KSpaced}

(***************************************************************************)
(* The worker pool: up to PoolSize jobs in flight, every file operation    *)
(* succeeds.                                                               *)
(***************************************************************************)
Next ==
  \/ AddToQueue(PoolKinds, PoolShapes, MaxJobs)
  \/ \E j \in JobIds :
       \/ Load(j, PoolSize)
       \/ \E file \in ArtifactFiles : WriteSchemaFile(j, file)
       \/ UpdateMetadataRead(j)
       \/ UpdateMetadataWrite(j)
       \/ Complete(j)

Spec == Init /\ [][Next]_vars

(***************************************************************************)
(* Retries: one job at a time, file writes may fail and the queue retries  *)
(* the job.                                                                *)
(***************************************************************************)
NextRetry ==
  \/ AddToQueue({KPing}, PoolShapes, MaxRetryJobs)
  \/ \E j \in JobIds :
       \/ Load(j, 1)
       \/ \E file \in ArtifactFiles : WriteSchemaFile(j, file)
       \/ \E file \in ArtifactFiles : FailSchemaFile(j, file)
       \/ UpdateMetadataRead(j)
       \/ UpdateMetadataWrite(j)
       \/ Complete(j)
       \/ AttemptFailed(j)

SpecRetry == Init /\ [][NextRetry]_vars

(***************************************************************************)
(* The sequential pipeline: one job at a time, no failure, every payload   *)
(* shape, one kind.                                                        *)
(***************************************************************************)
NextSeq ==
  \/ AddToQueue({KPing}, Shapes, MaxSeqJobs)
  \/ \E j \in JobIds :
       \/ Load(j, 1)
       \/ \E file \in ArtifactFiles : WriteSchemaFile(j, file)
       \/ UpdateMetadataRead(j)
       \/ UpdateMetadataWrite(j)
       \/ Complete(j)

SpecSeq == Init /\ [][NextSeq]_vars

(***************************************************************************)
(* The store walk: one job at a time, no failure, every kind, two shapes.  *)
(***************************************************************************)
NextStore ==
  \/ AddToQueue(StoreKinds, PoolShapes, MaxStoreJobs)
  \/ \E j \in JobIds :
       \/ Load(j, 1)
       \/ \E file \in ArtifactFiles : WriteSchemaFile(j, file)
       \/ UpdateMetadataRead(j)
       \/ UpdateMetadataWrite(j)
       \/ Complete(j)

SpecStore == Init /\ [][NextStore]_vars

(***************************************************************************)
(* Properties of the sequential pipeline.                                  *)
(***************************************************************************)
\* job j is the last job that ran: it is done, the jobs before it are done
\* and the jobs after it have not started
Settled(j) ==
  /\ jobs[j].pc = "done"
  /\ \A i \in JobIds \ {j} :
       \/ i < j /\ jobs[i].pc = "done"
       \/ i > j /\ jobs[i].pc = "waiting"

\* the metadata record persisted for the kind of job j
Record(j) == store[Folder(j)].meta[1]

\* the tree the record of job j's kind held when job j loaded it
PriorTree(j) == parseExistingStructure(jobs[j].existing[1])

\* the tree persisted for the kind of job j now
PersistedTree(j) == parseExistingStructure(Record(j))

\* every path that has a node in a tree (the root is not a field)
Paths(structure) == extractRequiredFields(structure) \cup extractOptionalFields(structure)

\* job j wrote at least one of the kind's artifact files
Regenerated(j) ==
  \E file \in ArtifactFiles :
    store[Folder(j)][file] # <<>> /\ store[Folder(j)][file][1].by = j

\* C1: when a payload of a kind that already has a persisted record is
\* processed, the version goes up by exactly 1 if and only if the fingerprint
\* of merge(prior persisted tree, payload tree) differs from the prior tree's
\* fingerprint; when they are equal the version stays and no artifact is
\* regenerated.
VersionBumpIffMergeDiffers ==
  \A j \in JobIds :
    (Settled(j) /\ jobs[j].existing # <<>>) =>
      LET merged == mergeStructures(PriorTree(j), Structure(j))
          identical == hashStructure(merged) = hashStructure(PriorTree(j))
      IN  /\ Record(j).schemaVersion =
               jobs[j].existing[1].schemaVersion + (IF identical THEN 0 ELSE 1)
          /\ identical => ~Regenerated(j)

\* C2: after each schema update the persisted tree of the kind has the
\* fingerprint of merge(previous persisted tree, payload tree), and it holds
\* a node for every field path carried by any processed payload of the kind.
PersistedTreeIsMerge ==
  \A j \in JobIds :
    Settled(j) =>
      /\ (jobs[j].existing # <<>> /\ Updates(j)) =>
           compareStructures(PersistedTree(j),
                             mergeStructures(PriorTree(j), Structure(j)))
      /\ \A i \in 1..j : Paths(Structure(i)) \subseteq Paths(PersistedTree(j))

(***************************************************************************)
(* Properties of the worker pool.                                          *)
(***************************************************************************)
\* the jobs of a kind that were processed to completion
Completed(kind) == { j \in JobIds : jobs[j].kind = kind /\ jobs[j].pc = "done" }

\* no job of the kind is in flight
Quiet(kind) == \A j \in JobIds : jobs[j].kind = kind => jobs[j].pc # "running"

\* job j is between its load of the prior record and the end of its save
InFlight(j) == jobs[j].pc = "running" /\ jobs[j].pending # {}

\* C3: for every kind, once N payloads of the kind have been processed to
\* completion, under any interleaving of the worker pool, the persisted
\* totalReceived of the kind equals N.
TotalReceivedCountsCompleted ==
  \A kind \in PoolKinds :
    (Quiet(kind) /\ Completed(kind) # {}) =>
      /\ store[EventTypeFolder(kind)].meta # <<>>
      /\ store[EventTypeFolder(kind)].meta[1].totalReceived = Cardinality(Completed(kind))

\* C4: under every interleaving of the jobs of a kind, the schemaVersion
\* stored in the kind's metadata never decreases from one metadata write to
\* the next.
SchemaVersionNeverDecreases ==
  [][\A d \in DOMAIN store :
       store[d].meta # <<>> =>
         store'[d].meta[1].schemaVersion >= store[d].meta[1].schemaVersion]_vars

\* C5: writers are serialized per kind: two jobs of the same kind are never
\* both between their load of the prior record and their save.
WritersSerializedPerKind ==
  \A i, j \in JobIds :
    (i # j /\ jobs[i].kind = jobs[j].kind) => ~(InFlight(i) /\ InFlight(j))

(***************************************************************************)
(* Properties of the produced schema and of the metadata census.           *)
(***************************************************************************)
\* the paths a generated validator or interface declares optional
RECURSIVE OptionalInSchema(_, _)
OptionalInSchema(schema, path) ==
  IF "props" \in DOMAIN schema
    THEN UNION { (IF schema.props[k].optional THEN {Append(path, k)} ELSE {})
                   \cup OptionalInSchema(schema.props[k].schema, Append(path, k)) :
                 k \in DOMAIN schema.props }
  ELSE IF "item" \in DOMAIN schema /\ schema.item # <<>>
    THEN OptionalInSchema(schema.item[1], Append(path, "[]"))
  ELSE {}

\* the optional fields of the schema files a folder holds
ProducedOptional(st, d, file) ==
  IF d \in DOMAIN st /\ st[d][file] # <<>>
    THEN OptionalInSchema(st[d][file][1].content, <<>>)
    ELSE {}

\* C6: optionality is monotone: a field that is optional in the schema the
\* pipeline produced (validator and interface) is optional after every later
\* processed payload of the kind.
OptionalityMonotone ==
  [][\A d \in DOMAIN store : \A file \in {"zod", "iface"} :
       ProducedOptional(store, d, file) \subseteq ProducedOptional(store', d, file)]_vars

\* every job was submitted with the payload and kind of the first one and
\* all of them are done
RepeatedPayload ==
  /\ jobs # <<>>
  /\ \A j \in JobIds :
       /\ jobs[j].pc = "done"
       /\ jobs[j].payload = jobs[1].payload
       /\ jobs[j].kind = jobs[1].kind

\* C7: submitting the same payload k times in sequence to an empty store
\* leaves the record at version 1 with totalReceived = k, and the artifacts
\* written for the first submission are not rewritten.
RepeatIsIdempotent ==
  RepeatedPayload =>
    /\ Record(1).schemaVersion = 1
    /\ Record(1).totalReceived = Len(jobs)
    /\ \A file \in ArtifactFiles : store[Folder(1)][file][1].by = 1

\* C9: in every persisted metadata record no field path is listed both in
\* fields.required and in fields.optional.
RequiredOptionalDisjoint ==
  \A d \in DOMAIN store :
    store[d].meta # <<>> => store[d].meta[1].required \cap store[d].meta[1].optional = {}

\* the top-level fields of the payload of job j
FieldsOf(j) == DOMAIN jobs[j].payload.kids

\* the top-level paths of a census
TopLevel(paths) == { p \in paths : Len(p) = 1 }

\* C10: if the earlier payloads of a kind all carry field f and a later
\* payload omits f, then once that payload is processed the version is the
\* previous version + 1, fields.optional contains f and fields.required is
\* exactly the set of fields present in every payload.
OptionalFieldDiscovery ==
  \A j \in JobIds : \A f \in {"b", "c"} :
    (/\ j > 1
     /\ Settled(j)
     /\ \A i \in 1..(j - 1) : f \in FieldsOf(i)
     /\ f \notin FieldsOf(j)) =>
      /\ Record(j).schemaVersion = jobs[j].existing[1].schemaVersion + 1
      /\ <<f>> \in Record(j).optional
      /\ TopLevel(Record(j).required) =
           { <<k>> : k \in { g \in FieldsOf(1) : \A i \in 1..j : g \in FieldsOf(i) } }

(***************************************************************************)
(* Properties of the store walk.                                           *)
(***************************************************************************)
\* C8: a saved kind is found again under its own name: once a job of kind K
\* saved K, the enumeration of kinds contains K and the lookup of K returns
\* K's record.
SavedKindIsFound ==
  \A j \in JobIds :
    jobs[j].pc = "done" =>
      /\ jobs[j].kind \in listEventTypes(store)
      /\ loadExistingSchema(store, jobs[j].kind) = store[Folder(j)].meta

(***************************************************************************)
(* The tree bench: three type trees the analyzer produces, to which the    *)
(* comparator's merge and the store round trip (serialize, then rebuild    *)
(* from metadata) are applied, so that the trees the comparator produces   *)
(* are reached too.                                                        *)
(***************************************************************************)
\* payloads analyzed on the bench: the shapes of the pipeline, an array of
\* mixed item types, a nested object and a nested empty object
TreePayloads ==
  Shapes \cup { Obj([k \in {"c"} |-> Arr(<<Num, Str>>)]),
                Obj([k \in {"c"} |-> Obj([x \in {"b"} |-> Num])]),
                Obj([k \in {"c"} |-> Obj([x \in {"b"} |-> Obj(NoKids)])]) }

AnalyzerTrees == { buildStructureMap(p) : p \in TreePayloads }

Slots == {"a", "b", "c"}

InitTree ==
  /\ store = NoStore
  /\ jobs = <<>>
  /\ failures = 0
  /\ rows = 0
  /\ reader = <<>>
  /\ calc \in [a : AnalyzerTrees, b : AnalyzerTrees, c : AnalyzerTrees, steps : {0}]

\* SchemaComparator.mergeStructures applied to two trees of the bench
MergeStructures(x, y) ==
  /\ calc.steps < MaxTreeSteps
  /\ calc' = [calc EXCEPT ![x] = mergeStructures(calc[x], calc[y]), !.steps = @ + 1]
  /\ UNCHANGED <<store, jobs, failures, rows, reader>>

\* a tree written into metadata.json and rebuilt from it
SaveAndParse(x) ==
  /\ calc.steps < MaxTreeSteps
  /\ calc' = [calc EXCEPT
                ![x] = reconstructStructureFromMetadata(serializeStructureForStorage(calc[x])),
                !.steps = @ + 1]
  /\ UNCHANGED <<store, jobs, failures, rows, reader>>

NextTree ==
  \/ \E x, y \in Slots : MergeStructures(x, y)
  \/ \E x \in Slots : SaveAndParse(x)

SpecTree == InitTree /\ [][NextTree]_vars

\* a tree has a node whose children map is present and empty
RECURSIVE HasEmptyObject(_)
HasEmptyObject(s) ==
  \/ s.children # <<>> /\ DOMAIN s.children[1] = {}
  \/ s.children # <<>> /\ \E k \in DOMAIN s.children[1] : HasEmptyObject(s.children[1][k])
  \/ s.arrayItemType # <<>> /\ HasEmptyObject(s.arrayItemType[1])

\* C11: for every tree T the analyzer or the comparator produces,
\* reconstructStructureFromMetadata(serializeStructureForStorage(T)) has the
\* structure fingerprint of T.
RoundTripKeepsFingerprint ==
  \A x \in Slots :
    compareStructures(
      reconstructStructureFromMetadata(serializeStructureForStorage(calc[x])), calc[x])

\* C12: for every tree T the analyzer produces, mergeStructures(T, T) has
\* the structure fingerprint of T.
MergeIdempotent ==
  \A x \in Slots :
    calc[x] \in AnalyzerTrees =>
      compareStructures(mergeStructures(calc[x], calc[x]), calc[x])

\* C13: for all trees A, B, C the fingerprint of merge(merge(A, B), C) equals
\* that of merge(A, merge(B, C)).
MergeAssociative ==
  compareStructures(
    mergeStructures(mergeStructures(calc.a, calc.b), calc.c),
    mergeStructures(calc.a, mergeStructures(calc.b, calc.c)))

\* C14: for all trees A and B, merge(A, B) and merge(B, A) have the same
\* structure fingerprint.
MergeCommutative ==
  \A x, y \in Slots :
    compareStructures(mergeStructures(calc[x], calc[y]),
                      mergeStructures(calc[y], calc[x]))

\* three trees that differ pairwise, at least one of them produced by the
\* comparator or the store, whose merge has an optional field and differs
\* from each of them
MergeAssociativeWitness ==
  LET abc == mergeStructures(mergeStructures(calc.a, calc.b), calc.c)
  IN  /\ calc.steps > 0
      /\ ~compareStructures(calc.a, calc.b)
      /\ ~compareStructures(calc.b, calc.c)
      /\ ~compareStructures(calc.a, calc.c)
      /\ extractOptionalFields(abc) # {}
      /\ \A x \in Slots : ~compareStructures(abc, calc[x])
      /\ MergeAssociative

\* two different trees, one produced by the comparator or the store, whose
\* merge has an optional field and a field of conflicting types
MergeCommutativeWitness ==
  LET ab == mergeStructures(calc.a, calc.b)
  IN  /\ calc.steps > 0
      /\ ~compareStructures(calc.a, calc.b)
      /\ extractOptionalFields(ab) # {}
      /\ \E k \in DOMAIN ab.children[1] : ab.children[1][k].type = "union"
      /\ MergeCommutative

(***************************************************************************)
(* Properties of a save that fails.                                        *)
(***************************************************************************)
\* the first attempt of job j has ended in a failure of saveSchema, all its
\* file operations have settled and the jobs before it are done
FailedSave(j) ==
  /\ jobs[j].pc = "running"
  /\ jobs[j].attempts = 0
  /\ jobs[j].err
  /\ jobs[j].pending = {}
  /\ \A i \in 1..(j - 1) : jobs[i].pc = "done"

\* C15: a save is all-or-nothing: when a step of saveSchema fails the
\* persisted state of the kind is what it was before the save began (no
\* artifact of the failed save, the metadata the job loaded); when none
\* fails, the three artifacts and the metadata all belong to the new state.
SaveAllOrNothing ==
  \A j \in JobIds :
    /\ FailedSave(j) =>
         /\ ~Regenerated(j)
         /\ store[Folder(j)].meta = jobs[j].existing
    /\ (Settled(j) /\ Updates(j)) =>
         /\ \A file \in ArtifactFiles : store[Folder(j)][file][1].by = j
         /\ Record(j).schemaVersion = nextSchemaVersion(jobs[j].existing)

(***************************************************************************)
(* A reader: FileManager.loadSchema, as run by GET /schemas/:eventType and *)
(* by loadExistingSchemas.  It checks that the four files exist, then      *)
(* reads them (Promise.all of four readFile calls); each read is one file  *)
(* operation and the worker's writes may run between two of them.          *)
(***************************************************************************)
SchemaFiles == ArtifactFiles \cup {"meta"}

StartRead(kind) ==
  /\ reader = <<>>
  /\ isSchemaDirectory(store, EventTypeFolder(kind))
  /\ kind \in findAllEventTypes(store, <<>>)
  /\ reader' = << [kind |-> kind, pending |-> SchemaFiles,
                   got |-> [f \in SchemaFiles |-> <<>>]] >>
  /\ UNCHANGED <<store, jobs, failures, rows, calc>>

ReadFile(file) ==
  /\ reader # <<>>
  /\ file \in reader[1].pending
  /\ reader' = << [reader[1] EXCEPT !.pending = @ \ {file},
                                    !.got[file] = store[reader[1].kind][file]] >>
  /\ UNCHANGED <<store, jobs, failures, rows, calc>>

\* loadSchema returns what it read
EndRead ==
  /\ reader # <<>>
  /\ reader[1].pending = {}
  /\ reader' = <<>>
  /\ UNCHANGED <<store, jobs, failures, rows, calc>>

NextRead ==
  \/ AddToQueue({KPing}, PoolShapes, MaxReadJobs)
  \/ \E j \in JobIds :
       \/ Load(j, 1)
       \/ \E file \in ArtifactFiles : WriteSchemaFile(j, file)
       \/ UpdateMetadataRead(j)
       \/ UpdateMetadataWrite(j)
       \/ Complete(j)
  \/ StartRead(KPing)
  \/ \E file \in SchemaFiles : ReadFile(file)
  \/ EndRead

SpecRead == Init /\ [][NextRead]_vars

\* C16: a reader running concurrently with a save never observes a torn
\* update: the artifacts it has read all come from one save of the record.
ReaderSeesOneVersion ==
  (reader # <<>> /\ reader[1].pending = {}) =>
    \A f, g \in ArtifactFiles : reader[1].got[f][1].by = reader[1].got[g][1].by

(***************************************************************************)
(* The truncator (TruncateService).  On this bench a string carries its    *)
(* text: [t |-> "string", s |-> <<characters>>].  A path is the sequence   *)
(* of its steps, an array position being the step "[0]", "[1]", ...        *)
(***************************************************************************)
JStr(chars) == [t |-> "string", s |-> chars]

Repeat(c, n) == [i \in 1..n |-> c]

\* the marker "[TRUNCATED]"
truncateMarker == <<"[", "T", "R", "U", "N", "C", "A", "T", "E", "D", "]">>

\* TRUNCATE_FIELDS, lower-cased
TruncateFields == {"base64", "jpegthumbnail", "thumbnail", "data", "image"}

\* String.prototype.toLowerCase on the keys of the bench
ToLowerCase(name) == IF name = "metaData" THEN "metadata" ELSE name

\* String.prototype.includes on the lower-cased keys of the bench
Includes(name, field) ==
  \/ name = field
  \/ name = "metadata" /\ field = "data"

Base64Chars == {"A", "B", "+", "/"}

\* TypeDetector.isBase64String: /^[A-Za-z0-9+/]+=*$/, a length that is a
\* multiple of 4 and at least 20
isBase64String(value) ==
  /\ Len(value) >= 20
  /\ Len(value) % 4 = 0
  /\ \E n \in 1..Len(value) :
       /\ \A i \in 1..n : value[i] \in Base64Chars
       /\ \A i \in (n + 1)..Len(value) : value[i] = "="

shouldTruncateField(fieldName, value, truncateFields, maxLength) ==
  \/ \E field \in truncateFields : Includes(ToLowerCase(fieldName), field)
  \/ Len(value) > maxLength * 10 /\ isBase64String(value)

IndexSteps == {"[0]", "[1]", "[n]"}

\* TruncateService.extractFieldName: the last step that is not an array
\* position, "" when there is none
extractFieldName(path) ==
  LET named == SelectSeq(path, LAMBDA step : step \notin IndexSteps)
  IN  IF named = <<>> THEN "" ELSE named[Len(named)]

shouldTruncate(path, value) ==
  shouldTruncateField(extractFieldName(path), value, TruncateFields, TRUNCATE_MAX_LENGTH)

\* String.prototype.substring(0, n)
Substring0(value, n) == SubSeq(value, 1, IF Len(value) < n THEN Len(value) ELSE n)

truncateString(value, path) ==
  IF ~shouldTruncate(path, value) THEN value
  ELSE Substring0(value, TRUNCATE_MAX_LENGTH) \o <<".", ".", ".">> \o truncateMarker

RECURSIVE deepTruncate(_, _)
\* a map that keeps only the first item, which structure preservation must
\* tell from Array.prototype.map
truncateItemsFirstOnly(items, path) ==
  [i \in 1..(IF Len(items) > 0 THEN 1 ELSE 0) |->
     deepTruncate(items[i], Append(path, IndexName(i)))]

\* Array.prototype.map over the items of an array
truncateItems(items, path) ==
  [i \in 1..Len(items) |-> deepTruncate(items[i], Append(path, IndexName(i)))]

deepTruncate(obj, path) ==
  IF obj.t = "string" THEN JStr(truncateString(obj.s, path))
  ELSE IF obj.t = "array" THEN Arr(truncateItems(obj.items, path))
  ELSE IF obj.t = "object"
    THEN Obj([k \in DOMAIN obj.kids |-> deepTruncate(obj.kids[k], Append(path, k))])
  ELSE obj

(***************************************************************************)
(* The truncator bench: a payload with the keys "data" (a configured       *)
(* truncate field), "metaData" (a name that includes one) and "name" (no   *)
(* match), to which truncateEvent is applied again and again.              *)
(***************************************************************************)
NumberOf(n) == [t |-> "number", n |-> n]

BenchStrings ==
  { JStr(<<>>),
    JStr(Repeat("A", 3)),
    JStr(Repeat("A", TRUNCATE_MAX_LENGTH)),
    JStr(Repeat("A", TRUNCATE_MAX_LENGTH + 4)),
    JStr(Repeat("A", TRUNCATE_MAX_LENGTH * 10 + 4)),
    JStr(Repeat(" ", TRUNCATE_MAX_LENGTH * 10 + 4)) }

BenchLeaves ==
  BenchStrings \cup {NumberOf(7), [t |-> "boolean", b |-> TRUE], [t |-> "null"]}

BenchValues ==
  BenchLeaves
  \cup { Arr(<<v, NumberOf(7)>>) : v \in BenchStrings }
  \cup { Obj([k \in {"name"} |-> v]) : v \in BenchStrings }
  \cup { Arr(<<>>), Obj(NoKids) }

TruncatorPayloads ==
  { Obj([k \in {"data", "name"} |-> IF k = "data" THEN v ELSE w]) :
      v \in BenchValues, w \in BenchLeaves }
  \cup { Obj([k \in {"metaData"} |-> v]) : v \in BenchValues }

InitTruncate ==
  /\ store = NoStore
  /\ jobs = <<>>
  /\ failures = 0
  /\ rows = 0
  /\ reader = <<>>
  /\ \E p \in TruncatorPayloads : calc = [original |-> p, payload |-> p, steps |-> 0]

\* TruncateService.truncateEvent applied to the payload of the bench
TruncateEvent ==
  /\ calc.steps < MaxTruncations
  /\ calc' = [calc EXCEPT !.payload = deepTruncate(calc.payload, <<>>), !.steps = @ + 1]
  /\ UNCHANGED <<store, jobs, failures, rows, reader>>

NextTruncate == TruncateEvent

SpecTruncate == InitTruncate /\ [][NextTruncate]_vars

\* C17: truncation is idempotent: truncating the already truncated payload
\* returns it unchanged.
TruncateIdempotent ==
  deepTruncate(deepTruncate(calc.payload, <<>>), <<>>) = deepTruncate(calc.payload, <<>>)

\* two payloads have the same keys and array positions, equal numbers,
\* booleans and nulls, and strings where the other has strings
RECURSIVE SameStructure(_, _)
SameStructure(p, q) ==
  /\ p.t = q.t
  /\ CASE p.t = "object" ->
            /\ DOMAIN p.kids = DOMAIN q.kids
            /\ \A k \in DOMAIN p.kids : SameStructure(p.kids[k], q.kids[k])
       [] p.t = "array" ->
            /\ Len(p.items) = Len(q.items)
            /\ \A i \in 1..Len(p.items) : SameStructure(p.items[i], q.items[i])
       [] p.t = "string" -> TRUE
       [] OTHER -> p = q

\* C18: truncation preserves structure: the truncated payload has the
\* paths of the original, every number, boolean and null is equal to the
\* original, and only string leaves may differ.
TruncatePreservesStructure ==
  /\ SameStructure(calc.payload, deepTruncate(calc.payload, <<>>))
  /\ SameStructure(calc.original, calc.payload)

\* a payload with a number inside an array and a string that was cut
TruncatePreservesStructureWitness ==
  /\ calc.steps > 0
  /\ calc.payload # calc.original
  /\ "data" \in DOMAIN calc.original.kids
  /\ calc.original.kids["data"].t = "array"
  /\ Len(calc.original.kids["data"].items) = 2
  /\ calc.original.kids["data"].items[2] = NumberOf(7)
  /\ TruncatePreservesStructure

\* ---------------------------------------------------------------------
\* The classifier (EventAnalyzer.extractEventType).  A JS string is the
\* sequence of its characters; a JS object is the sequence of its
\* properties in insertion order, each a key and a value.

JUndefined == [t |-> "undefined"]
JNull == [t |-> "null"]
JBool(b) == [t |-> "boolean", b |-> b]
Prop(key, value) == [k |-> key, v |-> value]
JsonObject(props) == [t |-> "object", props |-> props]

\* the error a method call on a value without that method raises
TypeError == <<"TypeError">>

\* !!v
Truthy(v) ==
  CASE v.t = "undefined" -> FALSE
    [] v.t = "null" -> FALSE
    [] v.t = "boolean" -> v.b
    [] v.t = "number" -> v.n # 0
    [] v.t = "string" -> v.s # <<>>
    [] OTHER -> TRUE

\* typeof v === 'string'
IsString(v) == v.t = "string"

\* typeof v === 'object' && v !== null
IsObjectLike(v) == v.t \in {"object", "array"}

Digits == <<"0", "1", "2", "3", "4", "5", "6", "7", "8", "9">>

RECURSIVE NumberToString(_)
NumberToString(n) ==
  IF n < 10 THEN <<Digits[n + 1]>>
  ELSE NumberToString(n \div 10) \o <<Digits[(n % 10) + 1]>>

\* Object.keys(v): the property names, array indices for an array
ObjectKeys(v) ==
  CASE v.t = "object" -> [i \in 1..Len(v.props) |-> v.props[i].k]
    [] v.t = "array" -> [i \in 1..Len(v.items) |-> NumberToString(i - 1)]
    [] OTHER -> <<>>

\* v[key] of a value that is not null or undefined
Get(v, key) ==
  CASE v.t = "object" ->
         IF \E i \in 1..Len(v.props) : v.props[i].k = key
         THEN v.props[CHOOSE i \in 1..Len(v.props) : v.props[i].k = key].v
         ELSE JUndefined
    [] v.t = "array" ->
         IF \E i \in 1..Len(v.items) : NumberToString(i - 1) = key
         THEN v.items[CHOOSE i \in 1..Len(v.items) : NumberToString(i - 1) = key]
         ELSE JUndefined
    [] OTHER -> JUndefined

\* v?.[key]
OptGet(v, key) == IF v.t \in {"undefined", "null"} THEN JUndefined ELSE Get(v, key)

\* a || b
JsOr(a, b) == IF Truthy(a) THEN a ELSE b

UpperCase ==
  <<"A", "B", "C", "D", "E", "F", "G", "H", "I", "J", "K", "L", "M",
    "N", "O", "P", "Q", "R", "S", "T", "U", "V", "W", "X", "Y", "Z">>

LowerCase ==
  <<"a", "b", "c", "d", "e", "f", "g", "h", "i", "j", "k", "l", "m",
    "n", "o", "p", "q", "r", "s", "t", "u", "v", "w", "x", "y", "z">>

IsUpper(c) == \E i \in 1..26 : UpperCase[i] = c
IsLower(c) == \E i \in 1..26 : LowerCase[i] = c
IsDigit(c) == \E i \in 1..10 : Digits[i] = c

lowerChar(c) ==
  IF IsUpper(c) THEN LowerCase[CHOOSE i \in 1..26 : UpperCase[i] = c] ELSE c

upperChar(c) ==
  IF IsLower(c) THEN UpperCase[CHOOSE i \in 1..26 : LowerCase[i] = c] ELSE c

\* String.prototype.toLowerCase
toLowerCase(s) == [i \in 1..Len(s) |-> lowerChar(s[i])]

\* String.prototype.includes
includes(s, sub) ==
  \E i \in 0..(Len(s) - Len(sub)) : SubSeq(s, i + 1, i + Len(sub)) = sub

\* String.prototype.split with a one-character separator
RECURSIVE split(_, _)
split(s, sep) ==
  IF \E i \in 1..Len(s) : s[i] = sep
  THEN LET i == CHOOSE i \in 1..Len(s) :
                  s[i] = sep /\ \A j \in 1..(i - 1) : s[j] # sep
       IN <<SubSeq(s, 1, i - 1)>> \o split(SubSeq(s, i + 1, Len(s)), sep)
  ELSE <<s>>

\* Array.prototype.join
RECURSIVE join(_, _)
join(parts, sep) ==
  IF parts = <<>> THEN <<>>
  ELSE IF Len(parts) = 1 THEN parts[1]
  ELSE parts[1] \o sep \o join(Tail(parts), sep)

\* JSON.stringify of a parsed JSON value (the strings of the events
\* considered hold no character that is escaped)
RECURSIVE stringify(_)
stringify(v) ==
  CASE v.t = "string" -> <<"\"">> \o v.s \o <<"\"">>
    [] v.t = "number" -> NumberToString(v.n)
    [] v.t = "boolean" -> IF v.b THEN <<"t", "r", "u", "e">> ELSE <<"f", "a", "l", "s", "e">>
    [] v.t = "null" -> <<"n", "u", "l", "l">>
    [] v.t = "array" ->
         <<"[">> \o join([i \in 1..Len(v.items) |-> stringify(v.items[i])], <<",">>) \o <<"]">>
    [] v.t = "object" ->
         <<"{">> \o join([i \in 1..Len(v.props) |->
                         <<"\"">> \o v.props[i].k \o <<"\"">> \o <<":">>
                           \o stringify(v.props[i].v)], <<",">>) \o <<"}">>

\* `${v}` in a template literal
RECURSIVE TemplateString(_)
TemplateString(v) ==
  CASE v.t = "string" -> v.s
    [] v.t = "number" -> NumberToString(v.n)
    [] v.t = "boolean" -> IF v.b THEN <<"t", "r", "u", "e">> ELSE <<"f", "a", "l", "s", "e">>
    [] v.t = "null" -> <<"n", "u", "l", "l">>
    [] v.t = "undefined" -> <<"u", "n", "d", "e", "f", "i", "n", "e", "d">>
    [] v.t = "array" ->
         join([i \in 1..Len(v.items) |->
                 IF v.items[i].t \in {"null", "undefined"} THEN <<>>
                 ELSE TemplateString(v.items[i])], <<",">>)
    [] v.t = "object" -> <<"[", "o", "b", "j", "e", "c", "t", " ", "O", "b", "j", "e", "c",
          "t", "]">>

\* EventAnalyzer.isZApiEvent raises: origin?.includes is called on a value
\* that is neither a string nor an array
isZApiEventThrows(event) ==
  LET headers == Get(event, <<"h", "e", "a", "d", "e", "r", "s">>)
      server == OptGet(headers, <<"s", "e", "r", "v", "e", "r">>)
      origin == OptGet(headers, <<"o", "r", "i", "g", "i", "n">>)
  IN /\ server # JStr(<<"Z", "-", "A", "P", "I">>)
     /\ origin.t \notin {"undefined", "null", "string", "array"}

knownZApiTypes ==
  { <<"R", "e", "c", "e", "i", "v", "e", "d", "C", "a", "l", "l", "b", "a", "c", "k">>, <<"S",
        "e", "n", "t", "C", "a", "l", "l", "b", "a", "c", "k">>, <<"M", "e", "s", "s", "a",
        "g", "e", "S", "t", "a", "t", "u", "s", "C", "a", "l", "l", "b", "a", "c", "k">>,
    <<"P", "r", "e", "s", "e", "n", "c", "e", "C", "h", "a", "t", "C", "a", "l", "l", "b", "a",
          "c", "k">>, <<"C", "o", "n", "n", "e", "c", "t", "e", "d", "C", "a", "l", "l", "b",
          "a", "c", "k">>, <<"D", "i", "s", "c", "o", "n", "n", "e", "c", "t", "e", "d", "C",
          "a", "l", "l", "b", "a", "c", "k">>,
    <<"Q", "r", "c", "o", "d", "e", "C", "a", "l", "l", "b", "a", "c", "k">>, <<"S", "t", "a",
          "t", "u", "s", "C", "a", "l", "l", "b", "a", "c", "k">> }

\* EventAnalyzer.isZApiEvent, when it does not raise
isZApiEvent(event) ==
  LET headers == Get(event, <<"h", "e", "a", "d", "e", "r", "s">>)
      server == OptGet(headers, <<"s", "e", "r", "v", "e", "r">>)
      origin == OptGet(headers, <<"o", "r", "i", "g", "i", "n">>)
      body == Get(event, <<"b", "o", "d", "y">>)
      type == OptGet(body, <<"t", "y", "p", "e">>)
  IN \/ server = JStr(<<"Z", "-", "A", "P", "I">>)
     \/ /\ origin.t = "string"
        /\ includes(origin.s, <<"z", "-", "a", "p", "i", ".", "i", "o">>)
     \/ /\ origin.t = "array"
        /\ \E i \in 1..Len(origin.items) : origin.items[i] = JStr(<<"z", "-", "a", "p", "i",
              ".", "i", "o">>)
     \/ /\ Truthy(type)
        /\ Truthy(OptGet(body, <<"i", "n", "s", "t", "a", "n", "c", "e", "I", "d">>))
        /\ type.t = "string"
        /\ type.s \in knownZApiTypes

\* s.replace(/callback$/i, '')
stripCallback(s) ==
  IF Len(s) >= 8 /\ toLowerCase(SubSeq(s, Len(s) - 7, Len(s))) = <<"c", "a", "l", "l", "b",
        "a", "c", "k">>
  THEN SubSeq(s, 1, Len(s) - 8)
  ELSE s

\* x.toLowerCase() as the classifier calls it: the lower-cased string, or
\* the error when x is not a string
callToLowerCase(x) == IF x.t = "string" THEN toLowerCase(x.s) ELSE TypeError

\* x?.toLowerCase() || 'unknown'
statusOrUnknown(x) ==
  IF x.t \in {"undefined", "null"} THEN <<"u", "n", "k", "n", "o", "w", "n">>
  ELSE IF x.t # "string" THEN TypeError
  ELSE IF x.s = <<>> THEN <<"u", "n", "k", "n", "o", "w", "n">>
  ELSE toLowerCase(x.s)

\* prefix + part, or the error that part is
Suffixed(prefix, part) == IF part = TypeError THEN TypeError ELSE prefix \o part

\* EventAnalyzer.detectZApiEventType
detectZApiEventType(event) ==
  LET body == JsOr(Get(event, <<"b", "o", "d", "y">>), event)
      mainType == JsOr(Get(body, <<"t", "y", "p", "e">>), JStr(<<"u", "n", "k", "n", "o", "w",
            "n">>))
      has(key) == Truthy(Get(body, key))
      sub(key, field) == Truthy(OptGet(Get(body, key), field))
  IN
  CASE mainType = JStr(<<"R", "e", "c", "e", "i", "v", "e", "d", "C", "a", "l", "l", "b", "a",
        "c", "k">>) ->
         IF sub(<<"t", "e", "x", "t">>, <<"m", "e", "s", "s", "a", "g", "e">>) THEN <<"z", "_",
               "a", "p", "i", "/", "r", "e", "c", "e", "i", "v", "e", "d", "_", "c", "a", "l",
               "l", "b", "a", "c", "k", "/", "t", "e", "x", "t">>
         ELSE IF sub(<<"i", "m", "a", "g", "e">>, <<"i", "m", "a", "g", "e", "U", "r",
               "l">>) \/ has(<<"i", "m", "a", "g", "e">>) THEN <<"z", "_", "a", "p", "i", "/",
               "r", "e", "c", "e", "i", "v", "e", "d", "_", "c", "a", "l", "l", "b", "a", "c",
               "k", "/", "i", "m", "a", "g", "e">>
         ELSE IF sub(<<"s", "t", "i", "c", "k", "e", "r">>, <<"s", "t", "i", "c", "k", "e",
               "r", "U", "r", "l">>) \/ has(<<"s", "t", "i", "c", "k", "e", "r">>) THEN <<"z",
               "_", "a", "p", "i", "/", "r", "e", "c", "e", "i", "v", "e", "d", "_", "c", "a",
               "l", "l", "b", "a", "c", "k", "/", "s", "t", "i", "c", "k", "e", "r">>
         ELSE IF sub(<<"a", "u", "d", "i", "o">>, <<"a", "u", "d", "i", "o", "U", "r",
               "l">>) \/ has(<<"a", "u", "d", "i", "o">>) THEN <<"z", "_", "a", "p", "i", "/",
               "r", "e", "c", "e", "i", "v", "e", "d", "_", "c", "a", "l", "l", "b", "a", "c",
               "k", "/", "a", "u", "d", "i", "o">>
         ELSE IF sub(<<"v", "i", "d", "e", "o">>, <<"v", "i", "d", "e", "o", "U", "r",
               "l">>) \/ has(<<"v", "i", "d", "e", "o">>) THEN <<"z", "_", "a", "p", "i", "/",
               "r", "e", "c", "e", "i", "v", "e", "d", "_", "c", "a", "l", "l", "b", "a", "c",
               "k", "/", "v", "i", "d", "e", "o">>
         ELSE IF sub(<<"d", "o", "c", "u", "m", "e", "n", "t">>, <<"d", "o", "c", "u", "m",
               "e", "n", "t", "U", "r", "l">>) \/ has(<<"d", "o", "c", "u", "m", "e", "n",
               "t">>) THEN <<"z", "_", "a", "p", "i", "/", "r", "e", "c", "e", "i", "v", "e",
               "d", "_", "c", "a", "l", "l", "b", "a", "c", "k", "/", "d", "o", "c", "u", "m",
               "e", "n", "t">>
         ELSE IF sub(<<"l", "o", "c", "a", "t", "i", "o", "n">>, <<"l", "a", "t", "i", "t",
               "u", "d", "e">>) \/ has(<<"l", "o", "c", "a", "t", "i", "o", "n">>) THEN <<"z",
               "_", "a", "p", "i", "/", "r", "e", "c", "e", "i", "v", "e", "d", "_", "c", "a",
               "l", "l", "b", "a", "c", "k", "/", "l", "o", "c", "a", "t", "i", "o", "n">>
         ELSE IF sub(<<"c", "o", "n", "t", "a", "c", "t">>, <<"d", "i", "s", "p", "l", "a",
               "y", "N", "a", "m", "e">>) \/ has(<<"c", "o", "n", "t", "a", "c",
               "t">>) THEN <<"z", "_", "a", "p", "i", "/", "r", "e", "c", "e", "i", "v", "e",
               "d", "_", "c", "a", "l", "l", "b", "a", "c", "k", "/", "c", "o", "n", "t", "a",
               "c", "t">>
         ELSE IF sub(<<"p", "o", "l", "l">>, <<"n", "a", "m", "e">>) \/ has(<<"p", "o", "l",
               "l">>) THEN <<"z", "_", "a", "p", "i", "/", "r", "e", "c", "e", "i", "v", "e",
               "d", "_", "c", "a", "l", "l", "b", "a", "c", "k", "/", "p", "o", "l", "l">>
         ELSE IF has(<<"r", "e", "a", "c", "t", "i", "o", "n">>) THEN <<"z", "_", "a", "p",
               "i", "/", "r", "e", "c", "e", "i", "v", "e", "d", "_", "c", "a", "l", "l", "b",
               "a", "c", "k", "/", "r", "e", "a", "c", "t", "i", "o", "n">>
         ELSE IF has(<<"o", "r", "d", "e", "r">>) THEN <<"z", "_", "a", "p", "i", "/", "r",
               "e", "c", "e", "i", "v", "e", "d", "_", "c", "a", "l", "l", "b", "a", "c", "k",
               "/", "o", "r", "d", "e", "r">>
         ELSE IF has(<<"p", "a", "y", "m", "e", "n", "t">>) THEN <<"z", "_", "a", "p", "i",
               "/", "r", "e", "c", "e", "i", "v", "e", "d", "_", "c", "a", "l", "l", "b", "a",
               "c", "k", "/", "p", "a", "y", "m", "e", "n", "t">>
         ELSE IF has(<<"b", "u", "t", "t", "o", "n", "s">>) THEN <<"z", "_", "a", "p", "i",
               "/", "r", "e", "c", "e", "i", "v", "e", "d", "_", "c", "a", "l", "l", "b", "a",
               "c", "k", "/", "b", "u", "t", "t", "o", "n", "s">>
         ELSE IF has(<<"l", "i", "s", "t">>) THEN <<"z", "_", "a", "p", "i", "/", "r", "e",
               "c", "e", "i", "v", "e", "d", "_", "c", "a", "l", "l", "b", "a", "c", "k", "/",
               "l", "i", "s", "t">>
         ELSE IF has(<<"i", "s", "G", "r", "o", "u", "p">>) THEN <<"z", "_", "a", "p", "i",
               "/", "r", "e", "c", "e", "i", "v", "e", "d", "_", "c", "a", "l", "l", "b", "a",
               "c", "k", "/", "g", "r", "o", "u", "p", "_", "m", "e", "s", "s", "a", "g", "e">>
         ELSE <<"z", "_", "a", "p", "i", "/", "r", "e", "c", "e", "i", "v", "e", "d", "_", "c",
               "a", "l", "l", "b", "a", "c", "k", "/", "u", "n", "k", "n", "o", "w", "n">>
    [] mainType = JStr(<<"S", "e", "n", "t", "C", "a", "l", "l", "b", "a", "c", "k">>) ->
         IF sub(<<"t", "e", "x", "t">>, <<"m", "e", "s", "s", "a", "g", "e">>) THEN <<"z", "_",
               "a", "p", "i", "/", "s", "e", "n", "t", "_", "c", "a", "l", "l", "b", "a", "c",
               "k", "/", "t", "e", "x", "t">>
         ELSE IF sub(<<"i", "m", "a", "g", "e">>, <<"i", "m", "a", "g", "e", "U", "r",
               "l">>) \/ has(<<"i", "m", "a", "g", "e">>) THEN <<"z", "_", "a", "p", "i", "/",
               "s", "e", "n", "t", "_", "c", "a", "l", "l", "b", "a", "c", "k", "/", "i", "m",
               "a", "g", "e">>
         ELSE IF sub(<<"s", "t", "i", "c", "k", "e", "r">>, <<"s", "t", "i", "c", "k", "e",
               "r", "U", "r", "l">>) \/ has(<<"s", "t", "i", "c", "k", "e", "r">>) THEN <<"z",
               "_", "a", "p", "i", "/", "s", "e", "n", "t", "_", "c", "a", "l", "l", "b", "a",
               "c", "k", "/", "s", "t", "i", "c", "k", "e", "r">>
         ELSE IF sub(<<"a", "u", "d", "i", "o">>, <<"a", "u", "d", "i", "o", "U", "r",
               "l">>) \/ has(<<"a", "u", "d", "i", "o">>) THEN <<"z", "_", "a", "p", "i", "/",
               "s", "e", "n", "t", "_", "c", "a", "l", "l", "b", "a", "c", "k", "/", "a", "u",
               "d", "i", "o">>
         ELSE IF sub(<<"v", "i", "d", "e", "o">>, <<"v", "i", "d", "e", "o", "U", "r",
               "l">>) \/ has(<<"v", "i", "d", "e", "o">>) THEN <<"z", "_", "a", "p", "i", "/",
               "s", "e", "n", "t", "_", "c", "a", "l", "l", "b", "a", "c", "k", "/", "v", "i",
               "d", "e", "o">>
         ELSE IF sub(<<"d", "o", "c", "u", "m", "e", "n", "t">>, <<"d", "o", "c", "u", "m",
               "e", "n", "t", "U", "r", "l">>) \/ has(<<"d", "o", "c", "u", "m", "e", "n",
               "t">>) THEN <<"z", "_", "a", "p", "i", "/", "s", "e", "n", "t", "_", "c", "a",
               "l", "l", "b", "a", "c", "k", "/", "d", "o", "c", "u", "m", "e", "n", "t">>
         ELSE IF has(<<"l", "o", "c", "a", "t", "i", "o", "n">>) THEN <<"z", "_", "a", "p",
               "i", "/", "s", "e", "n", "t", "_", "c", "a", "l", "l", "b", "a", "c", "k", "/",
               "l", "o", "c", "a", "t", "i", "o", "n">>
         ELSE IF has(<<"c", "o", "n", "t", "a", "c", "t">>) THEN <<"z", "_", "a", "p", "i",
               "/", "s", "e", "n", "t", "_", "c", "a", "l", "l", "b", "a", "c", "k", "/", "c",
               "o", "n", "t", "a", "c", "t">>
         ELSE <<"z", "_", "a", "p", "i", "/", "s", "e", "n", "t", "_", "c", "a", "l", "l", "b",
               "a", "c", "k", "/", "u", "n", "k", "n", "o", "w", "n">>
    [] mainType = JStr(<<"M", "e", "s", "s", "a", "g", "e", "S", "t", "a", "t", "u", "s", "C",
          "a", "l", "l", "b", "a", "c", "k">>) ->
         IF has(<<"i", "s", "G", "r", "o", "u", "p">>)
         THEN Suffixed(<<"z", "_", "a", "p", "i", "/", "m", "e", "s", "s", "a", "g", "e", "_",
               "s", "t", "a", "t", "u", "s", "/", "g", "r", "o", "u", "p", "_">>,
               statusOrUnknown(Get(body, <<"s", "t", "a", "t", "u", "s">>)))
         ELSE Suffixed(<<"z", "_", "a", "p", "i", "/", "m", "e", "s", "s", "a", "g", "e", "_",
               "s", "t", "a", "t", "u", "s", "/">>, statusOrUnknown(Get(body, <<"s", "t", "a",
               "t", "u", "s">>)))
    [] mainType = JStr(<<"P", "r", "e", "s", "e", "n", "c", "e", "C", "h", "a", "t", "C", "a",
          "l", "l", "b", "a", "c", "k">>) ->
         Suffixed(<<"z", "_", "a", "p", "i", "/", "p", "r", "e", "s", "e", "n", "c", "e", "_",
               "c", "h", "a", "t", "/">>, statusOrUnknown(Get(body, <<"s", "t", "a", "t", "u",
               "s">>)))
    [] mainType = JStr(<<"C", "o", "n", "n", "e", "c", "t", "e", "d", "C", "a", "l", "l", "b",
          "a", "c", "k">>) -> <<"z", "_", "a", "p", "i", "/", "c", "o", "n", "n", "e", "c",
          "t", "e", "d">>
    [] mainType = JStr(<<"D", "i", "s", "c", "o", "n", "n", "e", "c", "t", "e", "d", "C", "a",
          "l", "l", "b", "a", "c", "k">>) -> <<"z", "_", "a", "p", "i", "/", "d", "i", "s",
          "c", "o", "n", "n", "e", "c", "t", "e", "d">>
    [] mainType = JStr(<<"Q", "r", "c", "o", "d", "e", "C", "a", "l", "l", "b", "a", "c",
          "k">>) -> <<"z", "_", "a", "p", "i", "/", "q", "r", "c", "o", "d", "e">>
    [] mainType = JStr(<<"S", "t", "a", "t", "u", "s", "C", "a", "l", "l", "b", "a", "c",
          "k">>) -> <<"z", "_", "a", "p", "i", "/", "s", "t", "a", "t", "u", "s">>
    [] mainType = JStr(<<"I", "n", "s", "t", "a", "n", "c", "e", "C", "a", "l", "l", "b", "a",
          "c", "k">>) -> <<"z", "_", "a", "p", "i", "/", "i", "n", "s", "t", "a", "n", "c",
          "e">>
    [] mainType = JStr(<<"P", "r", "o", "f", "i", "l", "e", "C", "a", "l", "l", "b", "a", "c",
          "k">>) -> <<"z", "_", "a", "p", "i", "/", "p", "r", "o", "f", "i", "l", "e">>
    [] mainType = JStr(<<"G", "r", "o", "u", "p", "C", "a", "l", "l", "b", "a", "c", "k">>) ->
         IF has(<<"a", "c", "t", "i", "o", "n">>)
         THEN Suffixed(<<"z", "_", "a", "p", "i", "/", "g", "r", "o", "u", "p", "/">>,
               callToLowerCase(Get(body, <<"a", "c", "t", "i", "o", "n">>)))
         ELSE <<"z", "_", "a", "p", "i", "/", "g", "r", "o", "u", "p">>
    [] mainType = JStr(<<"C", "a", "l", "l", "C", "a", "l", "l", "b", "a", "c", "k">>) ->
         IF has(<<"c", "a", "l", "l", "S", "t", "a", "t", "u", "s">>)
         THEN Suffixed(<<"z", "_", "a", "p", "i", "/", "c", "a", "l", "l", "/">>,
               callToLowerCase(Get(body, <<"c", "a", "l", "l", "S", "t", "a", "t", "u", "s">>)))
         ELSE <<"z", "_", "a", "p", "i", "/", "c", "a", "l", "l">>
    [] mainType = JStr(<<"C", "h", "a", "t", "C", "a", "l", "l", "b", "a", "c", "k">>) ->
         IF has(<<"a", "c", "t", "i", "o", "n">>)
         THEN Suffixed(<<"z", "_", "a", "p", "i", "/", "c", "h", "a", "t", "/">>,
               callToLowerCase(Get(body, <<"a", "c", "t", "i", "o", "n">>)))
         ELSE <<"z", "_", "a", "p", "i", "/", "c", "h", "a", "t">>
    [] mainType = JStr(<<"D", "e", "v", "i", "c", "e", "C", "a", "l", "l", "b", "a", "c",
          "k">>) -> <<"z", "_", "a", "p", "i", "/", "d", "e", "v", "i", "c", "e">>
    [] mainType = JStr(<<"E", "r", "r", "o", "r", "C", "a", "l", "l", "b", "a", "c",
          "k">>) -> <<"z", "_", "a", "p", "i", "/", "e", "r", "r", "o", "r">>
    [] OTHER ->
         IF mainType.t = "string"
         THEN <<"z", "_", "a", "p", "i", "/">> \o stripCallback(toLowerCase(mainType.s))
         ELSE TypeError

\* Array.isArray(v) && v.length > 0
NonEmptyArray(v) == v.t = "array" /\ Len(v.items) > 0

\* EventAnalyzer.isWhatsAppBusinessAccount
isWhatsAppBusinessAccount(event) ==
  LET entry == Get(event, <<"e", "n", "t", "r", "y">>)
  IN /\ Get(event, <<"o", "b", "j", "e", "c", "t">>) = JStr(<<"w", "h", "a", "t", "s", "a",
        "p", "p", "_", "b", "u", "s", "i", "n", "e", "s", "s", "_", "a", "c", "c", "o", "u",
        "n", "t">>)
     /\ NonEmptyArray(entry)
     /\ NonEmptyArray(OptGet(entry.items[1], <<"c", "h", "a", "n", "g", "e", "s">>))
     /\ OptGet(OptGet(Get(entry.items[1], <<"c", "h", "a", "n", "g", "e", "s">>).items[1],
           <<"v", "a", "l", "u", "e">>),
               <<"m", "e", "s", "s", "a", "g", "i", "n", "g", "_", "p", "r", "o", "d", "u",
                     "c", "t">>) = JStr(<<"w", "h", "a", "t", "s", "a", "p", "p">>)

\* EventAnalyzer.detectWhatsAppBusinessEventType (called once
\* isWhatsAppBusinessAccount holds)
detectWhatsAppBusinessEventType(event) ==
  LET change == Get(Get(event, <<"e", "n", "t", "r", "y">>).items[1], <<"c", "h", "a", "n",
        "g", "e", "s">>).items[1]
      field == OptGet(change, <<"f", "i", "e", "l", "d">>)
      value == OptGet(change, <<"v", "a", "l", "u", "e">>)
      messages == OptGet(value, <<"m", "e", "s", "s", "a", "g", "e", "s">>)
  IN
  CASE field = JStr(<<"m", "e", "s", "s", "a", "g", "e", "s">>) ->
         IF Truthy(messages) /\ messages.t = "array"
         THEN <<"w", "h", "a", "t", "s", "a", "p", "p", "_", "b", "u", "s", "i", "n", "e", "s",
               "s", "_", "a", "c", "c", "o", "u", "n", "t", "/", "m", "e", "s", "s", "a", "g",
               "e", "s", "_">>
                \o TemplateString(JsOr(IF Len(messages.items) > 0
                                       THEN OptGet(messages.items[1], <<"t", "y", "p", "e">>)
                                       ELSE JUndefined,
                                       JStr(<<"t", "e", "x", "t">>)))
         ELSE <<"w", "h", "a", "t", "s", "a", "p", "p", "_", "b", "u", "s", "i", "n", "e", "s",
               "s", "_", "a", "c", "c", "o", "u", "n", "t", "/", "m", "e", "s", "s", "a", "g",
               "e", "s">>
    [] field = JStr(<<"m", "e", "s", "s", "a", "g", "e", "_", "d", "e", "l", "i", "v", "e",
          "r", "i", "e", "s">>) -> <<"w", "h", "a", "t", "s", "a", "p", "p", "_", "b", "u",
          "s", "i", "n", "e", "s", "s", "_", "a", "c", "c", "o", "u", "n", "t", "/", "m", "e",
          "s", "s", "a", "g", "e", "_", "d", "e", "l", "i", "v", "e", "r", "i", "e", "s">>
    [] field = JStr(<<"m", "e", "s", "s", "a", "g", "e", "_", "r", "e", "a", "d",
          "s">>) -> <<"w", "h", "a", "t", "s", "a", "p", "p", "_", "b", "u", "s", "i", "n",
          "e", "s", "s", "_", "a", "c", "c", "o", "u", "n", "t", "/", "m", "e", "s", "s", "a",
          "g", "e", "_", "r", "e", "a", "d", "s">>
    [] field = JStr(<<"m", "e", "s", "s", "a", "g", "e", "_", "r", "e", "a", "c", "t", "i",
          "o", "n", "s">>) -> <<"w", "h", "a", "t", "s", "a", "p", "p", "_", "b", "u", "s",
          "i", "n", "e", "s", "s", "_", "a", "c", "c", "o", "u", "n", "t", "/", "m", "e", "s",
          "s", "a", "g", "e", "_", "r", "e", "a", "c", "t", "i", "o", "n", "s">>
    [] field = JStr(<<"m", "e", "s", "s", "a", "g", "e", "_", "t", "e", "m", "p", "l", "a",
          "t", "e", "_", "s", "t", "a", "t", "u", "s", "_", "u", "p", "d", "a", "t",
          "e">>) -> <<"w", "h", "a", "t", "s", "a", "p", "p", "_", "b", "u", "s", "i", "n",
          "e", "s", "s", "_", "a", "c", "c", "o", "u", "n", "t", "/", "t", "e", "m", "p", "l",
          "a", "t", "e", "_", "s", "t", "a", "t", "u", "s">>
    [] field = JStr(<<"p", "h", "o", "n", "e", "_", "n", "u", "m", "b", "e", "r", "_", "n",
          "a", "m", "e", "_", "u", "p", "d", "a", "t", "e">>) -> <<"w", "h", "a", "t", "s",
          "a", "p", "p", "_", "b", "u", "s", "i", "n", "e", "s", "s", "_", "a", "c", "c", "o",
          "u", "n", "t", "/", "p", "r", "o", "f", "i", "l", "e", "_", "u", "p", "d", "a", "t",
          "e">>
    [] field = JStr(<<"a", "c", "c", "o", "u", "n", "t", "_", "a", "l", "e", "r", "t",
          "s">>) -> <<"w", "h", "a", "t", "s", "a", "p", "p", "_", "b", "u", "s", "i", "n",
          "e", "s", "s", "_", "a", "c", "c", "o", "u", "n", "t", "/", "a", "c", "c", "o", "u",
          "n", "t", "_", "a", "l", "e", "r", "t", "s">>
    [] field = JStr(<<"a", "c", "c", "o", "u", "n", "t", "_", "u", "p", "d", "a", "t",
          "e">>) -> <<"w", "h", "a", "t", "s", "a", "p", "p", "_", "b", "u", "s", "i", "n",
          "e", "s", "s", "_", "a", "c", "c", "o", "u", "n", "t", "/", "a", "c", "c", "o", "u",
          "n", "t", "_", "u", "p", "d", "a", "t", "e">>
    [] field = JStr(<<"b", "u", "s", "i", "n", "e", "s", "s", "_", "c", "a", "p", "a", "b",
          "i", "l", "i", "t", "y", "_", "u", "p", "d", "a", "t", "e">>) -> <<"w", "h", "a",
          "t", "s", "a", "p", "p", "_", "b", "u", "s", "i", "n", "e", "s", "s", "_", "a", "c",
          "c", "o", "u", "n", "t", "/", "c", "a", "p", "a", "b", "i", "l", "i", "t", "y", "_",
          "u", "p", "d", "a", "t", "e">>
    [] field = JStr(<<"s", "m", "b", "_", "m", "e", "s", "s", "a", "g", "e", "_", "e", "c",
          "h", "o", "e", "s">>) -> <<"w", "h", "a", "t", "s", "a", "p", "p", "_", "b", "u",
          "s", "i", "n", "e", "s", "s", "_", "a", "c", "c", "o", "u", "n", "t", "/", "s", "m",
          "b", "_", "m", "e", "s", "s", "a", "g", "e", "_", "e", "c", "h", "o", "e", "s">>
    [] OTHER ->
         <<"w", "h", "a", "t", "s", "a", "p", "p", "_", "b", "u", "s", "i", "n", "e", "s", "s",
               "_", "a", "c", "c", "o", "u", "n", "t", "/">> \o TemplateString(JsOr(field,
               JStr(<<"w", "e", "b", "h", "o", "o", "k">>)))

IsAlnum(c) == IsUpper(c) \/ IsLower(c) \/ IsDigit(c)

\* word.charAt(0).toUpperCase() + word.slice(1).toLowerCase()
capitalize(word) ==
  [i \in 1..Len(word) |-> IF i = 1 THEN upperChar(word[i]) ELSE lowerChar(word[i])]

\* EventAnalyzer.normalizeEventType
normalizeEventType(eventType) ==
  LET replaced == [i \in 1..Len(eventType) |->
                     IF IsAlnum(eventType[i]) THEN eventType[i] ELSE "_"]
      words == split(replaced, "_")
      normalized == join([i \in 1..Len(words) |-> capitalize(words[i])], <<>>)
  IN IF normalized = <<>> THEN <<"U", "n", "k", "n", "o", "w", "n">> ELSE normalized

\* EventAnalyzer.getAllKeys: the keys of a value and of every object or
\* array below it, depth first (for..in names the indices of an array)
RECURSIVE getAllKeys(_)
getAllKeys(obj) ==
  IF ~IsObjectLike(obj) THEN <<>>
  ELSE LET keys == ObjectKeys(obj)
       IN join([i \in 1..Len(keys) |->
                  <<keys[i]>> \o getAllKeys(Get(obj, keys[i]))], <<>>)

\* obj.hasOwnProperty(key)
hasOwnProperty(obj, key) == \E i \in 1..Len(ObjectKeys(obj)) : ObjectKeys(obj)[i] = key

\* EventAnalyzer.hasFields
hasFields(obj, fields) ==
  /\ IsObjectLike(obj)
  /\ \A field \in fields :
       LET fieldPath == toLowerCase(field)
           allKeys == getAllKeys(obj)
       IN \/ \E i \in 1..Len(allKeys) : toLowerCase(allKeys[i]) = fieldPath
          \/ hasOwnProperty(obj, field)
          \/ hasOwnProperty(obj, fieldPath)

\* EventAnalyzer.isSimpleEvent
isSimpleEvent(obj) ==
  /\ IsObjectLike(obj)
  /\ LET keys == ObjectKeys(obj)
     IN /\ Len(keys) <= 3
        /\ ~ \E i \in 1..Len(keys) :
               /\ IsObjectLike(Get(obj, keys[i]))
               /\ Len(ObjectKeys(Get(obj, keys[i]))) > 2

\* EventAnalyzer.detectEventTypeFromStructure
detectEventTypeFromStructure(event) ==
  LET eventStr == toLowerCase(stringify(event))
      has(fields) == hasFields(event, fields)
      inc(sub) == includes(eventStr, sub)
      legacy == OptGet(OptGet(Get(event, <<"b", "o", "d", "y">>), <<"d", "a", "t", "a">>),
            <<"e", "v", "e", "n", "t">>)
      message == OptGet(legacy, <<"m", "e", "s", "s", "a", "g", "e">>)
  IN
  IF has({<<"c", "o", "d", "e", "s">>}) \/ inc(<<"\"">> \o <<"c", "o", "d", "e",
        "s">> \o <<"\"">>) THEN <<"Q", "R">>
  ELSE IF has({<<"i", "d">>, <<"b", "u", "s", "i", "n", "e", "s", "s", "n", "a", "m", "e">>,
        <<"p", "l", "a", "t", "f", "o", "r", "m">>}) /\ ~has({<<"e", "r", "r", "o",
        "r">>}) THEN <<"P", "a", "i", "r", "S", "u", "c", "c", "e", "s", "s">>
  ELSE IF has({<<"i", "d">>, <<"b", "u", "s", "i", "n", "e", "s", "s", "n", "a", "m", "e">>,
        <<"p", "l", "a", "t", "f", "o", "r", "m">>, <<"e", "r", "r", "o", "r">>}) THEN <<"P",
        "a", "i", "r", "E", "r", "r", "o", "r">>
  ELSE IF inc(<<"q", "r", "s", "c", "a", "n", "n", "e", "d", "w", "i", "t", "h", "o", "u", "t",
        "m", "u", "l", "t", "i", "d", "e", "v", "i", "c", "e">>) \/ (inc(<<"q",
        "r">>) /\ inc(<<"m", "u", "l", "t", "i", "d", "e", "v", "i", "c", "e">>))
    THEN <<"Q", "R", "S", "c", "a", "n", "n", "e", "d", "W", "i", "t", "h", "o", "u", "t", "M",
          "u", "l", "t", "i", "d", "e", "v", "i", "c", "e">>
  ELSE IF inc(<<"c", "o", "n", "n", "e", "c", "t", "e",
        "d">>) /\ isSimpleEvent(event) THEN <<"C", "o", "n", "n", "e", "c", "t", "e", "d">>
  ELSE IF has({<<"o", "n", "c", "o", "n", "n", "e", "c", "t">>, <<"r", "e", "a", "s", "o",
        "n">>}) \/ inc(<<"l", "o", "g", "g", "e", "d", "o", "u", "t">>) THEN <<"L", "o", "g",
        "g", "e", "d", "O", "u", "t">>
  ELSE IF inc(<<"s", "t", "r", "e", "a", "m", "r", "e", "p", "l", "a", "c", "e",
        "d">>) THEN <<"S", "t", "r", "e", "a", "m", "R", "e", "p", "l", "a", "c", "e", "d">>
  ELSE IF inc(<<"m", "a", "n", "u", "a", "l", "l", "o", "g", "i", "n", "r", "e", "c", "o", "n",
        "n", "e", "c", "t">>) THEN <<"M", "a", "n", "u", "a", "l", "L", "o", "g", "i", "n",
        "R", "e", "c", "o", "n", "n", "e", "c", "t">>
  ELSE IF inc(<<"c", "l", "i", "e", "n", "t", "o", "u", "t", "d", "a", "t", "e",
        "d">>) THEN <<"C", "l", "i", "e", "n", "t", "O", "u", "t", "d", "a", "t", "e", "d">>
  ELSE IF has({<<"e", "r", "r", "o", "r">>}) /\ inc(<<"c", "a", "t">>) THEN <<"C", "A", "T",
        "R", "e", "f", "r", "e", "s", "h", "E", "r", "r", "o", "r">>
  ELSE IF has({<<"e", "r", "r", "o", "r", "c", "o", "u", "n", "t">>, <<"l", "a", "s", "t", "s",
        "u", "c", "c", "e", "s", "s">>}) \/ inc(<<"k", "e", "e", "p", "a", "l", "i", "v", "e",
        "t", "o">>) THEN <<"K", "e", "e", "p", "A", "l", "i", "v", "e", "T", "i", "m", "e",
        "o", "u", "t">>
  ELSE IF inc(<<"k", "e", "e", "p", "a", "l", "i", "v", "e", "r", "e", "s", "t", "o", "r", "e",
        "d">>) THEN <<"K", "e", "e", "p", "A", "l", "i", "v", "e", "R", "e", "s", "t", "o",
        "r", "e", "d">>
  ELSE IF has({<<"r", "e", "a", "s", "o", "n">>, <<"m", "e", "s", "s", "a", "g",
        "e">>}) /\ inc(<<"c", "o", "n", "n", "e", "c", "t", "f", "a", "i", "l", "u", "r",
        "e">>) THEN <<"C", "o", "n", "n", "e", "c", "t", "F", "a", "i", "l", "u", "r", "e">>
  ELSE IF has({<<"c", "o", "d", "e">>, <<"e", "x", "p", "i", "r", "e">>}) \/ inc(<<"t", "e",
        "m", "p", "o", "r", "a", "r", "y", "b", "a", "n">>) THEN <<"T", "e", "m", "p", "o",
        "r", "a", "r", "y", "B", "a", "n">>
  ELSE IF has({<<"c", "o", "d", "e">>, <<"r", "a", "w">>}) /\ inc(<<"s", "t", "r", "e", "a",
        "m">>) THEN <<"S", "t", "r", "e", "a", "m", "E", "r", "r", "o", "r">>
  ELSE IF inc(<<"d", "i", "s", "c", "o", "n", "n", "e", "c", "t", "e",
        "d">>) /\ isSimpleEvent(event) THEN <<"D", "i", "s", "c", "o", "n", "n", "e", "c", "t",
        "e", "d">>
  ELSE IF has({<<"i", "n", "f", "o">>, <<"m", "e", "s", "s", "a", "g",
        "e">>}) \/ (Truthy(message) /\ ~inc(<<"u", "n", "d", "e", "c", "r", "y", "p", "t", "a",
        "b", "l", "e">>))
    THEN <<"M", "e", "s", "s", "a", "g", "e">>
  ELSE IF has({<<"m", "e", "s", "s", "a", "g", "e">>, <<"t", "r", "a", "n", "s", "p", "o", "r",
        "t">>}) \/ inc(<<"f", "b", "m", "e", "s", "s", "a", "g", "e">>) THEN <<"F", "B", "M",
        "e", "s", "s", "a", "g", "e">>
  ELSE IF has({<<"i", "n", "f", "o">>, <<"i", "s", "u", "n", "a", "v", "a", "i", "l", "a", "b",
        "l", "e">>}) \/ inc(<<"u", "n", "d", "e", "c", "r", "y", "p", "t", "a", "b", "l",
        "e">>) THEN <<"U", "n", "d", "e", "c", "r", "y", "p", "t", "a", "b", "l", "e", "M",
        "e", "s", "s", "a", "g", "e">>
  ELSE IF has({<<"m", "e", "s", "s", "a", "g", "e", "i", "d", "s">>, <<"t", "i", "m", "e", "s",
        "t", "a", "m", "p">>, <<"t", "y", "p", "e">>})
          /\ (inc(<<"r", "e", "c", "e", "i", "p", "t">>) \/ inc(<<"d", "e", "l", "i", "v", "e",
                "r", "e", "d">>) \/ inc(<<"r", "e", "a", "d">>) \/ inc(<<"p", "l", "a", "y",
                "e", "d">>))
    THEN <<"R", "e", "c", "e", "i", "p", "t">>
  ELSE IF has({<<"s", "t", "a", "t", "e">>, <<"m", "e", "d", "i", "a">>}) /\ inc(<<"c", "h",
        "a", "t", "p", "r", "e", "s", "e", "n", "c", "e">>) THEN <<"C", "h", "a", "t", "P",
        "r", "e", "s", "e", "n", "c", "e">>
  ELSE IF has({<<"f", "r", "o", "m">>, <<"u", "n", "a", "v", "a", "i", "l", "a", "b", "l",
        "e">>, <<"l", "a", "s", "t", "s", "e", "e", "n">>}) \/ (inc(<<"p", "r", "e", "s", "e",
        "n", "c", "e">>) /\ ~inc(<<"c", "h", "a", "t">>))
    THEN <<"P", "r", "e", "s", "e", "n", "c", "e">>
  ELSE IF has({<<"r", "e", "a", "s", "o", "n">>, <<"t", "y", "p", "e">>, <<"c", "r", "e", "a",
        "t", "e", "k", "e", "y">>}) \/ inc(<<"j", "o", "i", "n", "e", "d", "g", "r", "o", "u",
        "p">>) THEN <<"J", "o", "i", "n", "e", "d", "G", "r", "o", "u", "p">>
  ELSE IF has({<<"j", "i", "d">>, <<"s", "e", "n", "d", "e", "r">>, <<"t", "i", "m", "e", "s",
        "t", "a", "m", "p">>})
          /\ (inc(<<"n", "a", "m", "e">>) \/ inc(<<"t", "o", "p", "i", "c">>) \/ inc(<<"j",
                "o", "i", "n">>) \/ inc(<<"l", "e", "a", "v", "e">>)
              \/ inc(<<"p", "r", "o", "m", "o", "t", "e">>) \/ inc(<<"d", "e", "m", "o", "t",
                    "e">>))
    THEN <<"G", "r", "o", "u", "p", "I", "n", "f", "o">>
  ELSE IF has({<<"j", "i", "d">>, <<"a", "u", "t", "h", "o", "r">>, <<"t", "i", "m", "e", "s",
        "t", "a", "m", "p">>, <<"p", "i", "c", "t", "u", "r", "e", "i", "d">>})
          \/ (inc(<<"p", "i", "c", "t", "u", "r", "e">>) /\ ~inc(<<"m", "e", "s", "s", "a",
                "g", "e">>))
    THEN <<"P", "i", "c", "t", "u", "r", "e">>
  ELSE IF has({<<"j", "i", "d">>, <<"s", "t", "a", "t", "u", "s">>, <<"t", "i", "m", "e", "s",
        "t", "a", "m", "p">>}) /\ inc(<<"u", "s", "e", "r", "a", "b", "o", "u",
        "t">>) THEN <<"U", "s", "e", "r", "A", "b", "o", "u", "t">>
  ELSE IF has({<<"c", "i", "p", "h", "e", "r", "t", "e", "x", "t">>, <<"i", "v">>, <<"m", "e",
        "s", "s", "a", "g", "e", "i", "d">>, <<"c", "h", "a", "t", "i", "d">>}) \/ inc(<<"m",
        "e", "d", "i", "a", "r", "e", "t", "r", "y">>)
    THEN <<"M", "e", "d", "i", "a", "R", "e", "t", "r", "y">>
  ELSE IF has({<<"j", "i", "d">>, <<"t", "i", "m", "e", "s", "t", "a", "m", "p">>, <<"i", "m",
        "p", "l", "i", "c", "i", "t">>}) \/ inc(<<"i", "d", "e", "n", "t", "i", "t", "y", "c",
        "h", "a", "n", "g", "e">>)
    THEN <<"I", "d", "e", "n", "t", "i", "t", "y", "C", "h", "a", "n", "g", "e">>
  ELSE IF has({<<"n", "e", "w", "s", "e", "t", "t", "i", "n", "g", "s">>}) \/ inc(<<"p", "r",
        "i", "v", "a", "c", "y", "s", "e", "t", "t", "i", "n", "g", "s">>) THEN <<"P", "r",
        "i", "v", "a", "c", "y", "S", "e", "t", "t", "i", "n", "g", "s">>
  ELSE IF has({<<"d", "a", "t", "a">>}) /\ inc(<<"h", "i", "s", "t", "o", "r", "y", "s", "y",
        "n", "c">>) THEN <<"H", "i", "s", "t", "o", "r", "y", "S", "y", "n", "c">>
  ELSE IF has({<<"t", "o", "t", "a", "l">>, <<"a", "p", "p", "d", "a", "t", "a", "c", "h", "a",
        "n", "g", "e", "s">>, <<"m", "e", "s", "s", "a", "g", "e", "s">>, <<"n", "o", "t", "i",
        "f", "i", "c", "a", "t", "i", "o", "n", "s">>})
          \/ inc(<<"o", "f", "f", "l", "i", "n", "e", "s", "y", "n", "c", "p", "r", "e", "v",
                "i", "e", "w">>)
    THEN <<"O", "f", "f", "l", "i", "n", "e", "S", "y", "n", "c", "P", "r", "e", "v", "i", "e",
          "w">>
  ELSE IF has({<<"c", "o", "u", "n", "t">>}) /\ inc(<<"o", "f", "f", "l", "i", "n", "e", "s",
        "y", "n", "c", "c", "o", "m", "p", "l", "e", "t", "e", "d">>) THEN <<"O", "f", "f",
        "l", "i", "n", "e", "S", "y", "n", "c", "C", "o", "m", "p", "l", "e", "t", "e", "d">>
  ELSE IF has({<<"a", "c", "t", "i", "o", "n">>, <<"d", "h", "a", "s", "h">>, <<"c", "h", "a",
        "n", "g", "e", "s">>}) \/ inc(<<"b", "l", "o", "c", "k", "l", "i", "s",
        "t">>) THEN <<"B", "l", "o", "c", "k", "l", "i", "s", "t">>
  ELSE IF inc(<<"n", "e", "w", "s", "l", "e", "t", "t", "e", "r">>)
    THEN IF inc(<<"j", "o", "i", "n">>) THEN <<"N", "e", "w", "s", "l", "e", "t", "t", "e",
          "r", "J", "o", "i", "n">>
         ELSE IF inc(<<"l", "e", "a", "v", "e">>) THEN <<"N", "e", "w", "s", "l", "e", "t",
               "t", "e", "r", "L", "e", "a", "v", "e">>
         ELSE IF inc(<<"m", "u", "t", "e">>) THEN <<"N", "e", "w", "s", "l", "e", "t", "t",
               "e", "r", "M", "u", "t", "e", "C", "h", "a", "n", "g", "e">>
         ELSE IF inc(<<"l", "i", "v", "e">>) \/ inc(<<"u", "p", "d", "a", "t",
               "e">>) THEN <<"N", "e", "w", "s", "l", "e", "t", "t", "e", "r", "L", "i", "v",
               "e", "U", "p", "d", "a", "t", "e">>
         ELSE <<"N", "e", "w", "s", "l", "e", "t", "t", "e", "r">>
  ELSE IF Truthy(legacy) /\ Truthy(message) /\ Truthy(Get(message, <<"t", "e", "x",
        "t">>)) THEN <<"M", "e", "s", "s", "a", "g", "e">>
  ELSE IF Truthy(legacy) /\ Truthy(message)
          /\ (Truthy(Get(message, <<"i", "m", "a", "g", "e">>)) \/ Truthy(Get(message, <<"J",
                "P", "E", "G", "T", "h", "u", "m", "b", "n", "a", "i", "l">>)))
    THEN <<"P", "i", "c", "t", "u", "r", "e">>
  ELSE IF Truthy(legacy) /\ Truthy(message)
          /\ (Truthy(Get(message, <<"a", "u", "d", "i", "o">>)) \/ Truthy(Get(message, <<"v",
                "o", "i", "c", "e">>)))
    THEN <<"A", "u", "d", "i", "o">>
  ELSE IF Truthy(legacy) /\ Truthy(message) /\ Truthy(Get(message, <<"v", "i", "d", "e",
        "o">>)) THEN <<"V", "i", "d", "e", "o">>
  ELSE IF Truthy(legacy) /\ Truthy(message) /\ Truthy(Get(message, <<"d", "o", "c", "u", "m",
        "e", "n", "t">>)) THEN <<"D", "o", "c", "u", "m", "e", "n", "t">>
  ELSE IF Truthy(legacy) /\ Truthy(message) /\ Truthy(Get(message, <<"l", "o", "c", "a", "t",
        "i", "o", "n">>)) THEN <<"L", "o", "c", "a", "t", "i", "o", "n">>
  ELSE IF Truthy(legacy) /\ Truthy(message)
          /\ (Truthy(Get(message, <<"c", "o", "n", "t", "a", "c",
                "t">>)) \/ Truthy(Get(message, <<"v", "c", "a", "r", "d">>)))
    THEN <<"C", "o", "n", "t", "a", "c", "t">>
  ELSE IF Truthy(legacy) /\ Truthy(message) /\ Truthy(Get(message, <<"s", "y", "s", "t", "e",
        "m">>)) THEN <<"S", "y", "s", "t", "e", "m", "M", "e", "s", "s", "a", "g", "e">>
  ELSE IF Truthy(legacy) /\ Truthy(Get(legacy, <<"r", "e", "c", "e", "i", "p",
        "t">>)) THEN <<"R", "e", "c", "e", "i", "p", "t">>
  ELSE IF Truthy(legacy) /\ Truthy(Get(legacy, <<"p", "r", "e", "s", "e", "n", "c",
        "e">>)) THEN <<"P", "r", "e", "s", "e", "n", "c", "e">>
  ELSE IF Truthy(legacy) /\ Truthy(Get(legacy, <<"c", "h", "a", "t", "s", "t", "a", "t",
        "e">>)) THEN <<"C", "h", "a", "t", "S", "t", "a", "t", "e">>
  ELSE <<"U", "n", "k", "n", "o", "w", "n">>

\* the patterns of detectEventTypeFromKeys, in order
keyPatterns ==
  << [type |-> <<"B", "u", "s", "i", "n", "e", "s", "s", "N", "a", "m", "e">>,
        keywords |-> {<<"b", "u", "s", "i", "n", "e", "s", "s">>, <<"b", "u", "s", "i", "n",
        "e", "s", "s", "n", "a", "m", "e">>}],
     [type |-> <<"D", "e", "l", "e", "t", "e", "C", "h", "a", "t">>, keywords |-> {<<"d", "e",
           "l", "e", "t", "e">>, <<"d", "e", "l", "e", "t", "e", "c", "h", "a", "t">>, <<"c",
           "l", "e", "a", "r">>}],
     [type |-> <<"U", "n", "d", "e", "c", "r", "y", "p", "t", "a", "b", "l", "e", "M", "e",
           "s", "s", "a", "g", "e">>,
      keywords |-> {<<"u", "n", "d", "e", "c", "r", "y", "p", "t", "a", "b", "l", "e">>, <<"d",
            "e", "c", "r", "y", "p", "t">>, <<"e", "n", "c", "r", "y", "p", "t", "e", "d">>}],
     [type |-> <<"G", "r", "o", "u", "p", "U", "p", "d", "a", "t", "e">>, keywords |-> {<<"g",
           "r", "o", "u", "p">>, <<"p", "a", "r", "t", "i", "c", "i", "p", "a", "n", "t",
           "s">>, <<"s", "u", "b", "j", "e", "c", "t">>}],
     [type |-> <<"C", "a", "l", "l", "E", "v", "e", "n", "t">>, keywords |-> {<<"c", "a", "l",
           "l">>, <<"c", "a", "l", "l", "i", "n", "g">>, <<"c", "a", "l", "l", "e", "v", "e",
           "n", "t">>}],
     [type |-> <<"S", "t", "a", "t", "u", "s", "U", "p", "d", "a", "t", "e">>,
           keywords |-> {<<"s", "t", "a", "t", "u", "s">>, <<"s", "t", "a", "t", "u", "s", "u",
           "p", "d", "a", "t", "e">>}],
     [type |-> <<"P", "r", "o", "f", "i", "l", "e", "U", "p", "d", "a", "t", "e">>,
           keywords |-> {<<"p", "r", "o", "f", "i", "l", "e">>, <<"p", "r", "o", "f", "i", "l",
           "e", "u", "p", "d", "a", "t", "e">>}] >>

\* EventAnalyzer.detectEventTypeFromKeys
detectEventTypeFromKeys(event) ==
  LET allKeys == toLowerCase(join(getAllKeys(event), <<",">>))
      matches(i) == \E keyword \in keyPatterns[i].keywords : includes(allKeys, keyword)
  IN IF \E i \in 1..Len(keyPatterns) : matches(i)
     THEN keyPatterns[CHOOSE i \in 1..Len(keyPatterns) :
                        matches(i) /\ \A j \in 1..(i - 1) : ~matches(j)].type
     ELSE <<"U", "n", "k", "n", "o", "w", "n">>

knownOrigins ==
  <<<<"b", "a", "i", "l", "e", "y", "s">>, <<"v", "e", "n", "o", "m">>, <<"w", "p", "p", "c",
        "o", "n", "n", "e", "c", "t">>, <<"e", "v", "o", "l", "u", "t", "i", "o", "n">>, <<"c",
        "o", "d", "e", "c", "h", "a", "t">>, <<"z", "a", "p", "m", "e">>, <<"w", "a", "b", "i",
        "z">>>>

\* the first match of /https?:\/\/([^\/]+)/ in origin: the position after
\* the "//", or 0 when there is none
hostStart(origin) ==
  LET at(i) ==
        IF Len(origin) >= i + 7 /\ SubSeq(origin, i, i + 6) = <<"h", "t", "t", "p", ":", "/",
              "/">>
           /\ origin[i + 7] # "/" THEN i + 7
        ELSE IF Len(origin) >= i + 8 /\ SubSeq(origin, i, i + 7) = <<"h", "t", "t", "p", "s",
              ":", "/", "/">>
           /\ origin[i + 8] # "/" THEN i + 8
        ELSE 0
  IN IF \E i \in 1..Len(origin) : at(i) > 0
     THEN at(CHOOSE i \in 1..Len(origin) : at(i) > 0 /\ \A j \in 1..(i - 1) : at(j) = 0)
     ELSE 0

\* EventAnalyzer.extractProviderFromOrigin; <<>> stands for null
extractProviderFromOrigin(origin) ==
  LET lowerOrigin == toLowerCase(origin)
      known(i) == includes(lowerOrigin, knownOrigins[i])
      start == hostStart(origin)
      domain == split(SubSeq(origin, start, Len(origin)), "/")[1]
      parts == split(domain, ".")
      provider == parts[Len(parts) - 1]
  IN IF \E i \in 1..Len(knownOrigins) : known(i)
     THEN knownOrigins[CHOOSE i \in 1..Len(knownOrigins) :
                         known(i) /\ \A j \in 1..(i - 1) : ~known(j)]
     ELSE IF start > 0 /\ Len(parts) >= 2 /\ provider # <<>> /\ provider # <<"w", "w", "w">>
     THEN provider
     ELSE <<>>

knownUserAgents ==
  <<<<"b", "a", "i", "l", "e", "y", "s">>, <<"v", "e", "n", "o", "m">>, <<"w", "p", "p", "c",
        "o", "n", "n", "e", "c", "t">>, <<"e", "v", "o", "l", "u", "t", "i", "o", "n">>, <<"c",
        "o", "d", "e", "c", "h", "a", "t">>, <<"z", "a", "p", "m", "e">>,
    <<"w", "a", "b", "i", "z">>, <<"n", "o", "t", "i", "f", "i", "c", "a", "m", "e">>, <<"c",
          "h", "a", "t", "a", "p", "i">>, <<"w", "a", "b", "o", "x", "a", "p", "p">>, <<"m",
          "e", "s", "s", "a", "g", "e", "b", "i", "r", "d">>, <<"t", "w", "i", "l", "i", "o">>,
    <<"w", "a", "t", "i">>, <<"3", "6", "0", "d", "i", "a", "l", "o", "g">>, <<"i", "n", "f",
          "o", "b", "i", "p">>>>

\* EventAnalyzer.extractProviderFromUserAgent; <<>> stands for null
extractProviderFromUserAgent(userAgent) ==
  LET ua == toLowerCase(userAgent)
      known(i) == includes(ua, knownUserAgents[i])
  IN IF \E i \in 1..Len(knownUserAgents) : known(i)
     THEN knownUserAgents[CHOOSE i \in 1..Len(knownUserAgents) :
                            known(i) /\ \A j \in 1..(i - 1) : ~known(j)]
     ELSE <<>>

\* the positions of s kept by .replace(/_+/g, '_')
RECURSIVE collapseUnderscores(_)
collapseUnderscores(s) ==
  IF Len(s) < 2 THEN s
  ELSE IF s[1] = "_" /\ s[2] = "_" THEN collapseUnderscores(Tail(s))
  ELSE <<s[1]>> \o collapseUnderscores(Tail(s))

\* .replace(/^_|_$/g, '')
trimUnderscores(s) ==
  LET first == IF s # <<>> /\ s[1] = "_" THEN 2 ELSE 1
      last == IF Len(s) >= first /\ s[Len(s)] = "_" THEN Len(s) - 1 ELSE Len(s)
  IN SubSeq(s, first, last)

\* EventAnalyzer.normalizeProviderName
normalizeProviderName(provider) ==
  LET lower == toLowerCase(provider)
      replaced == [i \in 1..Len(lower) |->
                     IF IsLower(lower[i]) \/ IsDigit(lower[i]) THEN lower[i] ELSE "_"]
  IN trimUnderscores(collapseUnderscores(replaced))

customHeaders ==
  <<<<"x", "-", "p", "r", "o", "v", "i", "d", "e", "r">>, <<"x", "-", "a", "p", "i", "-", "p",
        "r", "o", "v", "i", "d", "e", "r">>, <<"x", "-", "w", "e", "b", "h", "o", "o", "k",
        "-", "p", "r", "o", "v", "i", "d", "e", "r">>, <<"x", "-", "s", "e", "r", "v", "i",
        "c", "e">>,
    <<"x", "-", "p", "l", "a", "t", "f", "o", "r", "m">>, <<"x", "-", "s", "o", "u", "r", "c",
          "e">>>>

providerFields ==
  <<<<"p", "r", "o", "v", "i", "d", "e", "r">>, <<"p", "l", "a", "t", "f", "o", "r", "m">>,
        <<"s", "o", "u", "r", "c", "e">>, <<"a", "p", "i">>, <<"s", "e", "r", "v", "i", "c",
        "e">>, <<"v", "e", "n", "d", "o", "r">>,
    <<"i", "n", "t", "e", "g", "r", "a", "t", "i", "o", "n">>, <<"c", "h", "a", "n", "n", "e",
          "l">>>>

\* EventAnalyzer.detectProvider
detectProvider(event) ==
  LET headers == JsOr(Get(event, <<"h", "e", "a", "d", "e", "r", "s">>), JsonObject(<<>>))
      origin == JsOr(Get(headers, <<"o", "r", "i", "g", "i", "n">>), Get(headers, <<"x", "-",
            "f", "o", "r", "w", "a", "r", "d", "e", "d", "-", "h", "o", "s", "t">>))
      userAgent == Get(headers, <<"u", "s", "e", "r", "-", "a", "g", "e", "n", "t">>)
      custom(i) == Truthy(Get(headers, customHeaders[i]))
      body == JsOr(Get(event, <<"b", "o", "d", "y">>), event)
      named(i) == Truthy(Get(body, providerFields[i])) /\ IsString(Get(body, providerFields[i]))
      fromOrigin == extractProviderFromOrigin(origin.s)
      fromUserAgent == extractProviderFromUserAgent(userAgent.s)
  IN
  IF Truthy(origin) /\ ~IsString(origin) THEN TypeError
  ELSE IF Truthy(origin) /\ fromOrigin # <<>> THEN fromOrigin
  ELSE IF Truthy(userAgent) /\ ~IsString(userAgent) THEN TypeError
  ELSE IF Truthy(userAgent) /\ fromUserAgent # <<>> THEN fromUserAgent
  ELSE IF \E i \in 1..Len(customHeaders) : custom(i)
  THEN LET header == Get(headers, customHeaders[
                       CHOOSE i \in 1..Len(customHeaders) :
                         custom(i) /\ \A j \in 1..(i - 1) : ~custom(j)])
       IN IF IsString(header) THEN normalizeProviderName(header.s) ELSE TypeError
  ELSE IF \E i \in 1..Len(providerFields) : named(i)
  THEN normalizeProviderName(
         Get(body, providerFields[CHOOSE i \in 1..Len(providerFields) :
                                    named(i) /\ \A j \in 1..(i - 1) : ~named(j)]).s)
  ELSE <<"g", "e", "n", "e", "r", "i", "c">>

\* EventAnalyzer.detectTypeByStructure; <<>> stands for null
detectTypeByStructure(event) ==
  LET body == JsOr(Get(event, <<"b", "o", "d", "y">>), event)
      has(key) == Truthy(Get(body, key))
  IN IF has(<<"m", "e", "s", "s", "a", "g", "e">>) \/ has(<<"m", "e", "s", "s", "a", "g", "e",
        "s">>) THEN <<"m", "e", "s", "s", "a", "g", "e">>
     ELSE IF has(<<"s", "t", "a", "t", "u", "s">>) \/ has(<<"s", "t", "a", "t", "u", "s", "e",
           "s">>) THEN <<"s", "t", "a", "t", "u", "s">>
     ELSE IF has(<<"n", "o", "t", "i", "f", "i", "c", "a", "t", "i", "o", "n">>) \/ has(<<"n",
           "o", "t", "i", "f", "i", "c", "a", "t", "i", "o", "n", "s">>) THEN <<"n", "o", "t",
           "i", "f", "i", "c", "a", "t", "i", "o", "n">>
     ELSE IF has(<<"p", "r", "e", "s", "e", "n", "c", "e">>) THEN <<"p", "r", "e", "s", "e",
           "n", "c", "e">>
     ELSE IF has(<<"r", "e", "c", "e", "i", "p", "t">>) \/ has(<<"r", "e", "c", "e", "i", "p",
           "t", "s">>) THEN <<"r", "e", "c", "e", "i", "p", "t">>
     ELSE IF has(<<"c", "a", "l", "l">>) \/ has(<<"c", "a", "l", "l", "s">>) THEN <<"c", "a",
           "l", "l">>
     ELSE IF has(<<"g", "r", "o", "u", "p">>) THEN <<"g", "r", "o", "u", "p">>
     ELSE IF has(<<"c", "o", "n", "t", "a", "c", "t">>) \/ has(<<"c", "o", "n", "t", "a", "c",
           "t", "s">>) THEN <<"c", "o", "n", "t", "a", "c", "t">>
     ELSE IF has(<<"m", "e", "d", "i", "a">>) THEN <<"m", "e", "d", "i", "a">>
     ELSE IF has(<<"l", "o", "c", "a", "t", "i", "o", "n">>) THEN <<"l", "o", "c", "a", "t",
           "i", "o", "n">>
     ELSE IF has(<<"r", "e", "a", "c", "t", "i", "o", "n">>) \/ has(<<"r", "e", "a", "c", "t",
           "i", "o", "n", "s">>) THEN <<"r", "e", "a", "c", "t", "i", "o", "n">>
     ELSE IF has(<<"e", "r", "r", "o", "r">>) \/ has(<<"e", "r", "r", "o", "r",
           "s">>) THEN <<"e", "r", "r", "o", "r">>
     ELSE <<>>

possibleTypeFields ==
  <<<<"e", "v", "e", "n", "t">>, <<"e", "v", "e", "n", "t", "T", "y", "p", "e">>, <<"t", "y",
        "p", "e">>, <<"e", "v", "e", "n", "t", "o">>, <<"e", "v", "e", "n", "t", "s">>, <<"w",
        "e", "b", "h", "o", "o", "k", "_", "e", "v", "e", "n", "t">>,
    <<"w", "e", "b", "h", "o", "o", "k", "E", "v", "e", "n", "t">>, <<"e", "v", "e", "n", "t",
          "_", "t", "y", "p", "e">>, <<"e", "v", "e", "n", "t", "N", "a", "m", "e">>, <<"a",
          "c", "t", "i", "o", "n">>, <<"m", "e", "s", "s", "a", "g", "e", "_", "t", "y", "p",
          "e">>,
    <<"m", "e", "s", "s", "a", "g", "e", "T", "y", "p", "e">>, <<"n", "o", "t", "i", "f", "i",
          "c", "a", "t", "i", "o", "n", "_", "t", "y", "p", "e">>, <<"n", "o", "t", "i", "f",
          "i", "c", "a", "t", "i", "o", "n", "T", "y", "p", "e">>, <<"c", "a", "l", "l", "b",
          "a", "c", "k", "_", "t", "y", "p", "e">>,
    <<"c", "a", "l", "l", "b", "a", "c", "k", "T", "y", "p", "e">>, <<"w", "e", "b", "h", "o",
          "o", "k", "_", "t", "y", "p", "e">>>>

\* the objects detectGenericEventType searches, in order
searchPaths(event) ==
  <<event, Get(event, <<"b", "o", "d", "y">>), Get(event, <<"d", "a", "t", "a">>), Get(event,
        <<"p", "a", "y", "l", "o", "a", "d">>),
    Get(event, <<"m", "e", "s", "s", "a", "g", "e">>), Get(event, <<"n", "o", "t", "i", "f",
          "i", "c", "a", "t", "i", "o", "n">>)>>

\* the type fields detectGenericEventType reads, in the order of its two
\* loops: every field of the first search path, then of the second, ...
typeFieldReads(event) ==
  [n \in 1..(Len(searchPaths(event)) * Len(possibleTypeFields)) |->
     LET searchPath == searchPaths(event)[((n - 1) \div Len(possibleTypeFields)) + 1]
         field == possibleTypeFields[((n - 1) % Len(possibleTypeFields)) + 1]
     IN IF IsObjectLike(searchPath) THEN Get(searchPath, field) ELSE JUndefined]

\* the first type field that holds a non-empty string, or undefined
firstTypeField(event) ==
  LET reads == typeFieldReads(event)
      found(n) == Truthy(reads[n]) /\ IsString(reads[n])
  IN IF \E n \in 1..Len(reads) : found(n)
     THEN reads[CHOOSE n \in 1..Len(reads) : found(n) /\ \A m \in 1..(n - 1) : ~found(m)]
     ELSE JUndefined

\* EventAnalyzer.detectGenericEventType
detectGenericEventType(event) ==
  LET provider == detectProvider(event)
      typeField == firstTypeField(event)
      structuralType == detectTypeByStructure(event)
  IN IF provider = TypeError THEN TypeError
     ELSE IF typeField # JUndefined THEN provider \o <<"/">> \o normalizeEventType(typeField.s)
     ELSE IF structuralType # <<>> THEN provider \o <<"/">> \o structuralType
     ELSE provider \o <<"/", "w", "e", "b", "h", "o", "o", "k">>

\* a direct tag: value && typeof value === 'string'
IsTag(value) == Truthy(value) /\ IsString(value)

\* EventAnalyzer.extractEventType: the kind of the event, or TypeError
\* when the classifier raises
extractEventType(event) ==
  LET bodyEventType == OptGet(Get(event, <<"b", "o", "d", "y">>), <<"e", "v", "e", "n", "t",
        "T", "y", "p", "e">>)
      bodyDataType == OptGet(OptGet(Get(event, <<"b", "o", "d", "y">>), <<"d", "a", "t",
            "a">>), <<"t", "y", "p", "e">>)
      structuralType == detectEventTypeFromStructure(event)
      keyBasedType == detectEventTypeFromKeys(event)
      genericType == detectGenericEventType(event)
  IN
  IF isZApiEventThrows(event) THEN TypeError
  ELSE IF isZApiEvent(event) THEN detectZApiEventType(event)
  ELSE IF isWhatsAppBusinessAccount(event) THEN detectWhatsAppBusinessEventType(event)
  ELSE IF IsTag(Get(event, <<"e", "v", "e", "n", "t", "T", "y", "p",
        "e">>)) THEN normalizeEventType(Get(event, <<"e", "v", "e", "n", "t", "T", "y", "p",
        "e">>).s)
  ELSE IF IsTag(bodyEventType) THEN normalizeEventType(bodyEventType.s)
  ELSE IF IsTag(bodyDataType) THEN normalizeEventType(bodyDataType.s)
  ELSE IF structuralType # <<"U", "n", "k", "n", "o", "w", "n">> THEN structuralType
  ELSE IF keyBasedType # <<"U", "n", "k", "n", "o", "w", "n">> THEN keyBasedType
  ELSE IF genericType # <<"U", "n", "k", "n", "o", "w", "n">> THEN genericType
  ELSE <<"U", "n", "k", "n", "o", "w", "n">>

\* ---------------------------------------------------------------------
\* The classifier applied to events: the webhook route hands the worker
\* the event { headers, body } of a request whose body is an object.

Event(headers, body) ==
  JsonObject(<<Prop(<<"h", "e", "a", "d", "e", "r", "s">>, JsonObject(headers)), Prop(<<"b",
        "o", "d", "y">>, JsonObject(body))>>)

BenchHeaders ==
  { <<>>,
    <<Prop(<<"s", "e", "r", "v", "e", "r">>, JStr(<<"Z", "-", "A", "P", "I">>))>>,
    <<Prop(<<"o", "r", "i", "g", "i", "n">>, JStr(<<"h", "t", "t", "p", "s", ":", "/", "/",
          "a", "p", "i", ".", "z", "-", "a", "p", "i", ".", "i", "o">>))>>,
    <<Prop(<<"o", "r", "i", "g", "i", "n">>, JStr(<<"h", "t", "t", "p", "s", ":", "/", "/",
          "h", "o", "o", "k", "s", ".", "e", "x", "a", "m", "p", "l", "e", ".", "c", "o",
          "m">>))>>,
    <<Prop(<<"u", "s", "e", "r", "-", "a", "g", "e", "n", "t">>, JStr(<<"T", "w", "i", "l",
          "i", "o", "/", "1">>))>>,
    <<Prop(<<"c", "o", "n", "t", "e", "n", "t", "-", "t", "y", "p", "e">>, JStr(<<"a", "p",
          "p", "l", "i", "c", "a", "t", "i", "o", "n", "/", "j", "s", "o", "n">>)), Prop(<<"x",
          "-", "p", "r", "o", "v", "i", "d", "e", "r">>, JStr(<<"A", "c", "m", "e", " ", "I",
          "n", "c">>))>>,
    <<Prop(<<"h", "o", "s", "t">>, JStr(<<"l", "o", "c", "a", "l", "h", "o", "s", "t", ":",
          "3", "0", "0", "0">>)), Prop(<<"u", "s", "e", "r", "-", "a", "g", "e", "n", "t">>,
          JStr(<<"c", "u", "r", "l", "/", "8">>)),
      Prop(<<"c", "o", "n", "t", "e", "n", "t", "-", "t", "y", "p", "e">>, JStr(<<"a", "p",
            "p", "l", "i", "c", "a", "t", "i", "o", "n", "/", "j", "s", "o", "n">>))>> }

\* body.type of the Z-API bodies
BenchTypes ==
  { JStr(<<"M", "e", "s", "s", "a", "g", "e", "S", "t", "a", "t", "u", "s", "C", "a", "l", "l",
        "b", "a", "c", "k">>), JStr(<<"P", "r", "e", "s", "e", "n", "c", "e", "C", "h", "a",
        "t", "C", "a", "l", "l", "b", "a", "c", "k">>), JStr(<<"G", "r", "o", "u", "p", "C",
        "a", "l", "l", "b", "a", "c", "k">>),
    JStr(<<"C", "a", "l", "l", "C", "a", "l", "l", "b", "a", "c", "k">>), JStr(<<"R", "e", "c",
          "e", "i", "v", "e", "d", "C", "a", "l", "l", "b", "a", "c", "k">>), JStr(<<"F", "o",
          "o", "C", "a", "l", "l", "b", "a", "c", "k">>), NumberOf(5),
    JStr(<<"C", "a", "l", "l", "b", "a", "c", "k">>) }

\* what a Z-API body holds besides type and instanceId
BenchExtras ==
  { <<>>,
    <<Prop(<<"s", "t", "a", "t", "u", "s">>, JStr(<<"R", "E", "A", "D">>))>>,
    <<Prop(<<"s", "t", "a", "t", "u", "s">>, NumberOf(3))>>,
    <<Prop(<<"a", "c", "t", "i", "o", "n">>, JStr(<<"a", "d", "d">>))>>,
    <<Prop(<<"a", "c", "t", "i", "o", "n">>, NumberOf(1))>>,
    <<Prop(<<"c", "a", "l", "l", "S", "t", "a", "t", "u", "s">>, NumberOf(2))>>,
    <<Prop(<<"t", "e", "x", "t">>, JsonObject(<<Prop(<<"m", "e", "s", "s", "a", "g", "e">>,
          JStr(<<"h", "i">>))>>))>>,
    <<Prop(<<"i", "s", "G", "r", "o", "u", "p">>, JBool(TRUE)), Prop(<<"s", "t", "a", "t", "u",
          "s">>, JStr(<<"S", "E", "N", "T">>))>> }

ZApiBodies ==
  { <<Prop(<<"t", "y", "p", "e">>, type), Prop(<<"i", "n", "s", "t", "a", "n", "c", "e", "I",
        "d">>, JStr(<<"i", "1">>))>> \o extra :
      type \in BenchTypes, extra \in BenchExtras }

OtherBodies ==
  { <<Prop(<<"x">>, NumberOf(1))>>,
    <<Prop(<<"e", "v", "e", "n", "t", "T", "y", "p", "e">>, JStr(<<"m", "e", "s", "s", "a",
          "g", "e", ".", "r", "e", "c", "e", "i", "v", "e", "d">>))>>,
    <<Prop(<<"d", "a", "t", "a">>, JsonObject(<<Prop(<<"t", "y", "p", "e">>, JStr(<<"p", "i",
          "n", "g">>))>>))>>,
    <<Prop(<<"c", "o", "d", "e", "s">>, Arr(<<JStr(<<"a">>)>>))>>,
    <<Prop(<<"s", "t", "a", "t", "e">>, JStr(<<"c", "o", "n", "n", "e", "c", "t", "e",
          "d">>))>>,
    <<Prop(<<"e", "v", "e", "n", "t">>, JStr(<<"o", "r", "d", "e", "r", " ", "c", "r", "e",
          "a", "t", "e", "d">>))>>,
    <<Prop(<<"s", "t", "a", "t", "u", "s">>, JStr(<<"o", "k">>))>>,
    <<Prop(<<"m", "e", "d", "i", "a">>, JStr(<<"m">>))>>,
    <<Prop(<<"t", "y", "p", "e">>, NumberOf(5))>>,
    <<Prop(<<"d", "a", "t", "a">>, JsonObject(<<Prop(<<"e", "v", "e", "n", "t">>,
         JsonObject(<<Prop(<<"m", "e", "s", "s", "a", "g", "e">>, JsonObject(<<Prop(<<"i", "m",
               "a", "g", "e">>, JStr(<<"i">>))>>))>>))>>))>>,
    <<Prop(<<"i", "n", "f", "o">>, JStr(<<"n">>)), Prop(<<"m", "e", "s", "s", "a", "g", "e">>,
          JStr(<<"m">>)), Prop(<<"c", "o", "d", "e", "s">>, NumberOf(1))>>,
    <<Prop(<<"e", "v", "e", "n", "t", "T", "y", "p", "e">>, JStr(<<"-", "-">>))>> }

\* payloads of the Meta Cloud API: field messages with an image message,
\* the second with the contact profile Meta sends along
MetaPayloads ==
  { <<Prop(<<"o", "b", "j", "e", "c", "t">>, JStr(<<"w", "h", "a", "t", "s", "a", "p", "p",
        "_", "b", "u", "s", "i", "n", "e", "s", "s", "_", "a", "c", "c", "o", "u", "n", "t">>)),
      Prop(<<"e", "n", "t", "r", "y">>, Arr(<<JsonObject(<<Prop(<<"c", "h", "a", "n", "g", "e",
            "s">>, Arr(<<JsonObject(
        <<Prop(<<"f", "i", "e", "l", "d">>, JStr(<<"m", "e", "s", "s", "a", "g", "e", "s">>)),
          Prop(<<"v", "a", "l", "u", "e">>, JsonObject(
            <<Prop(<<"m", "e", "s", "s", "a", "g", "i", "n", "g", "_", "p", "r", "o", "d", "u",
                  "c", "t">>, JStr(<<"w", "h", "a", "t", "s", "a", "p", "p">>)),
              Prop(<<"m", "e", "s", "s", "a", "g", "e", "s">>, Arr(<<JsonObject(
                <<Prop(<<"t", "y", "p", "e">>, JStr(<<"i", "m", "a", "g",
                      "e">>))>>)>>))>>))>>)>>))>>)>>))>>,
    <<Prop(<<"o", "b", "j", "e", "c", "t">>, JStr(<<"w", "h", "a", "t", "s", "a", "p", "p",
          "_", "b", "u", "s", "i", "n", "e", "s", "s", "_", "a", "c", "c", "o", "u", "n",
          "t">>)),
      Prop(<<"e", "n", "t", "r", "y">>, Arr(<<JsonObject(<<Prop(<<"c", "h", "a", "n", "g", "e",
            "s">>, Arr(<<JsonObject(
        <<Prop(<<"f", "i", "e", "l", "d">>, JStr(<<"m", "e", "s", "s", "a", "g", "e", "s">>)),
          Prop(<<"v", "a", "l", "u", "e">>, JsonObject(
            <<Prop(<<"m", "e", "s", "s", "a", "g", "i", "n", "g", "_", "p", "r", "o", "d", "u",
                  "c", "t">>, JStr(<<"w", "h", "a", "t", "s", "a", "p", "p">>)),
              Prop(<<"c", "o", "n", "t", "a", "c", "t", "s">>, Arr(<<JsonObject(
                <<Prop(<<"p", "r", "o", "f", "i", "l", "e">>, JsonObject(<<Prop(<<"n", "a",
                      "m", "e">>, JStr(<<"A", "n", "n">>))>>))>>)>>)),
              Prop(<<"m", "e", "s", "s", "a", "g", "e", "s">>, Arr(<<JsonObject(
                <<Prop(<<"t", "y", "p", "e">>, JStr(<<"i", "m", "a", "g",
                      "e">>))>>)>>))>>))>>)>>))>>)>>))>> }

\* events as the route builds them
RouteEvents ==
  { Event(headers, body) : headers \in BenchHeaders, body \in ZApiBodies \cup OtherBodies \cup MetaPayloads }

\* events of other shapes the classifier accepts: a tag or a Meta Cloud
\* payload at the top level, headers that are not strings
DirectEvents ==
  { JsonObject(<<Prop(<<"e", "v", "e", "n", "t", "T", "y", "p", "e">>, JStr(<<"P", "i", "n",
        "g">>))>>),
    JsonObject(<<Prop(<<"e", "v", "e", "n", "t", "T", "y", "p", "e">>, JStr(<<"P", "i", "n",
          "g">>)),
                 Prop(<<"b", "o", "d", "y">>, JsonObject(<<Prop(<<"e", "v", "e", "n", "t", "T",
                       "y", "p", "e">>, JStr(<<"P", "o", "n", "g">>))>>))>>),
    JsonObject(<<Prop(<<"o", "b", "j", "e", "c", "t">>, JStr(<<"w", "h", "a", "t", "s", "a",
          "p", "p", "_", "b", "u", "s", "i", "n", "e", "s", "s", "_", "a", "c", "c", "o", "u",
          "n", "t">>)),
                 Prop(<<"e", "n", "t", "r", "y">>, Arr(<<JsonObject(<<Prop(<<"c", "h", "a",
                       "n", "g", "e", "s">>, Arr(<<JsonObject(
                   <<Prop(<<"f", "i", "e", "l", "d">>, JStr(<<"m", "e", "s", "s", "a", "g",
                         "e", "s">>)),
                     Prop(<<"v", "a", "l", "u", "e">>, JsonObject(
                       <<Prop(<<"m", "e", "s", "s", "a", "g", "i", "n", "g", "_", "p", "r",
                             "o", "d", "u", "c", "t">>, JStr(<<"w", "h", "a", "t", "s", "a",
                             "p", "p">>)),
                         Prop(<<"m", "e", "s", "s", "a", "g", "e", "s">>, Arr(<<JsonObject(
                           <<Prop(<<"t", "y", "p", "e">>, JStr(<<"i", "m", "a", "g",
                                 "e">>))>>)>>))>>))>>)>>))>>)>>))>>),
    JsonObject(<<Prop(<<"h", "e", "a", "d", "e", "r", "s">>, JsonObject(<<Prop(<<"o", "r", "i",
          "g", "i", "n">>, NumberOf(7))>>)),
                 Prop(<<"b", "o", "d", "y">>, JsonObject(<<Prop(<<"x">>, NumberOf(1))>>))>>),
    JsonObject(<<Prop(<<"h", "e", "a", "d", "e", "r", "s">>, JsonObject(<<Prop(<<"x", "-", "s",
          "o", "u", "r", "c", "e">>, NumberOf(7))>>)),
                 Prop(<<"b", "o", "d", "y">>, JsonObject(<<Prop(<<"x">>, NumberOf(1))>>))>>) }

ClassifierEvents == RouteEvents \cup DirectEvents

InitClassify ==
  /\ store = NoStore
  /\ jobs = <<>>
  /\ failures = 0
  /\ rows = 0
  /\ reader = <<>>
  /\ \E event \in ClassifierEvents :
       calc = [event |-> event, eventType |-> <<>>, outcome |-> "waiting"]

\* EventAnalyzer.analyzeEvent as far as the kind: the attempt fails when
\* extractEventType raises
AnalyzeEvent ==
  /\ calc.outcome = "waiting"
  /\ LET eventType == extractEventType(calc.event)
     IN calc' = [calc EXCEPT !.eventType = eventType,
                             !.outcome = IF eventType = TypeError THEN "failed"
                                         ELSE "analyzed"]
  /\ UNCHANGED <<store, jobs, failures, rows, reader>>

NextClassify == AnalyzeEvent

SpecClassify == InitClassify /\ [][NextClassify]_vars

\* C19: classification is never an error: extractEventType returns a kind
\* for every event and no attempt fails because of the classifier.
ClassifierNeverThrows == calc.outcome # "failed" /\ calc.eventType # TypeError

\* the generic provider fallback finds evidence in the event: a provider,
\* a type field or one of the fields detectTypeByStructure looks for
GenericEvidence(event) ==
  \/ detectProvider(event) # <<"g", "e", "n", "e", "r", "i", "c">>
  \/ firstTypeField(event) # JUndefined
  \/ detectTypeByStructure(event) # <<>>

\* the kind of the first rule of the cascade that matches the event,
\* Unknown when none does
FirstMatchingRule(event) ==
  IF isZApiEvent(event) THEN detectZApiEventType(event)
  ELSE IF isWhatsAppBusinessAccount(event) THEN detectWhatsAppBusinessEventType(event)
  ELSE IF IsTag(Get(event, <<"e", "v", "e", "n", "t", "T", "y", "p",
        "e">>)) THEN normalizeEventType(Get(event, <<"e", "v", "e", "n", "t", "T", "y", "p",
        "e">>).s)
  ELSE IF IsTag(OptGet(Get(event, <<"b", "o", "d", "y">>), <<"e", "v", "e", "n", "t", "T", "y",
        "p", "e">>))
    THEN normalizeEventType(OptGet(Get(event, <<"b", "o", "d", "y">>), <<"e", "v", "e", "n",
          "t", "T", "y", "p", "e">>).s)
  ELSE IF IsTag(OptGet(OptGet(Get(event, <<"b", "o", "d", "y">>), <<"d", "a", "t", "a">>),
        <<"t", "y", "p", "e">>))
    THEN normalizeEventType(OptGet(OptGet(Get(event, <<"b", "o", "d", "y">>), <<"d", "a", "t",
          "a">>), <<"t", "y", "p", "e">>).s)
  ELSE IF detectEventTypeFromStructure(event) # <<"U", "n", "k", "n", "o", "w", "n">>
    THEN detectEventTypeFromStructure(event)
  ELSE IF detectEventTypeFromKeys(event) # <<"U", "n", "k", "n", "o", "w",
        "n">> THEN detectEventTypeFromKeys(event)
  ELSE IF GenericEvidence(event) THEN detectGenericEventType(event)
  ELSE <<"U", "n", "k", "n", "o", "w", "n">>

\* C20: the kind is the result of the first matching rule of the cascade
\* (Z-API shape, Meta Cloud shape, the tags eventType, body.eventType and
\* body.data.type, the structural catalog, the keyword scan, the generic
\* provider fallback), and an event in which no rule finds evidence is
\* classified Unknown.
KindIsFirstMatchingRule ==
  calc.outcome = "analyzed" => calc.eventType = FirstMatchingRule(calc.event)

\* part.replace(/[^a-zA-Z0-9_-]/g, '_')
sanitizePart(part) ==
  [i \in 1..Len(part) |->
     IF IsAlnum(part[i]) \/ part[i] \in {"_", "-"} THEN part[i] ELSE "_"]

\* FileManager.sanitizeEventType on the characters of a kind: the
\* sanitized parts, which the code joins with '/'
sanitizedParts(eventType) ==
  LET parts == split(eventType, "/")
  IN [i \in 1..Len(parts) |-> sanitizePart(parts[i])]

\* C21: when the kind the classifier returns contains '/', every segment
\* of the sanitized kind is a non-empty string of identifier-safe
\* characters.
SanitizedSegmentsAreIdentifiers ==
  (calc.outcome = "analyzed" /\ includes(calc.eventType, <<"/">>)) =>
    \A i \in 1..Len(sanitizedParts(calc.eventType)) :
      LET part == sanitizedParts(calc.eventType)[i]
      IN /\ part # <<>>
         /\ \A c \in 1..Len(part) : IsAlnum(part[c]) \/ part[c] \in {"_", "-"}

\* C22: a payload whose root has object = whatsapp_business_account and
\* entry[0].changes[0].value.messaging_product = whatsapp, submitted
\* through the webhook route, gets the kind
\* whatsapp_business_account/<field>, with the suffix _<messages[0].type>
\* when the field is messages.
MetaPayloadKind ==
  (/\ calc.outcome = "analyzed"
   /\ calc.event \in RouteEvents
   /\ isWhatsAppBusinessAccount(Get(calc.event, <<"b", "o", "d", "y">>))) =>
    calc.eventType = detectWhatsAppBusinessEventType(Get(calc.event, <<"b", "o", "d", "y">>))

(***************************************************************************)
(* The sequential pipeline on payloads with cut strings: at the top        *)
(* level, inside an array, inside an object of an array.                   *)
(***************************************************************************)
CutShapes ==
  { Shape(<<>>, <<>>),
    Shape(<<>>, <<CutStr>>),
    Shape(<<>>, <<Arr(<<CutStr>>)>>),
    Shape(<<>>, <<Arr(<<Obj([k \in {"b"} |-> CutStr])>>)>>) }

NextCut ==
  \/ AddToQueue({KPing}, CutShapes, MaxSeqJobs)
  \/ \E j \in JobIds :
       \/ Load(j, 1)
       \/ \E file \in ArtifactFiles : WriteSchemaFile(j, file)
       \/ UpdateMetadataRead(j)
       \/ UpdateMetadataWrite(j)
       \/ Complete(j)

SpecCut == Init /\ [][NextCut]_vars

\* C23: in every persisted metadata record every path of fields.truncated
\* is also in fields.required or fields.optional.
TruncatedFieldsAreListed ==
  \A folder \in DOMAIN store :
    store[folder].meta # <<>> =>
      store[folder].meta[1].truncated \subseteq
        (store[folder].meta[1].required \cup store[folder].meta[1].optional)

\* job j completed after loading its kind as absent, and no later job has
\* touched the record since
RebuiltBy(j) ==
  /\ jobs[j].pc = "done"
  /\ jobs[j].existing = <<>>
  /\ \A i \in JobIds \ {j} :
       \/ i < j /\ jobs[i].pc \in {"done", "failed"}
       \/ i > j /\ jobs[i].pc = "waiting" /\ jobs[i].attempts = 0

\* the record the first payload of a new kind produces
FirstRecord(j) ==
  mergeMetadata(<<>>, generateMetadata(jobs[j].kind, Structure(j), <<>>,
                                       nextSchemaVersion(<<>>)))

\* C24: when a required artifact file of the kind is missing the record
\* is treated as absent and the next processed payload rebuilds it from
\* scratch: the resulting record is the one a first payload of a new kind
\* produces and carries nothing over from the damaged record.
RebuildFromScratch ==
  \A j \in JobIds : RebuiltBy(j) => Record(j) = FirstRecord(j)

(***************************************************************************)
(* EventProcessor.saveEventToDatabase when the INSERT is rejected: its     *)
(* catch logs the error and returns, so processEventJob goes on to its     *)
(* end and the queue marks the job completed.                              *)
(***************************************************************************)
InsertFailed(j) ==
  /\ jobs[j].pc = "running"
  /\ jobs[j].pending = {}
  /\ ~jobs[j].err
  /\ failures < MaxFailures
  /\ failures' = failures + 1
  /\ store' = IF Updates(j)
                THEN [store EXCEPT ![Folder(j)].raw =
                        IF @ < KeptRawSamples THEN @ + 1 ELSE KeptRawSamples]
                ELSE store
  /\ jobs' = [jobs EXCEPT ![j].pc = "done"]
  /\ UNCHANGED <<rows, reader, calc>>

(***************************************************************************)
(* One worker, one kind, the events table may reject an INSERT.            *)
(***************************************************************************)
NextRows ==
  \/ AddToQueue({KPing}, PoolShapes, MaxSeqJobs)
  \/ \E j \in JobIds :
       \/ Load(j, 1)
       \/ \E file \in ArtifactFiles : WriteSchemaFile(j, file)
       \/ UpdateMetadataRead(j)
       \/ UpdateMetadataWrite(j)
       \/ Complete(j)
       \/ InsertFailed(j)

SpecRows == Init /\ [][NextRows]_vars

\* C25: every job the worker reports as completed has exactly one row in
\* the events table: the table holds as many rows as there are completed
\* jobs, so a rejected INSERT never leaves a completed job without a row.
OneRowPerCompletedJob ==
  rows = Cardinality({ j \in JobIds : jobs[j].pc = "done" })

(***************************************************************************)
(* A job whose event is null instead of an object. The kind of such a job  *)
(* is never computed: extractEventType reads event.headers first and       *)
(* raises a TypeError.                                                     *)
(***************************************************************************)
Malformed(j) == jobs[j].payload = JNull

AddMalformed(max) ==
  /\ Len(jobs) < max
  /\ Cardinality(Waiting) < MaxWaiting
  /\ jobs' = Append(jobs, [kind |-> TypeError, payload |-> JNull, pc |-> "waiting",
                           attempts |-> 0, existing |-> <<>>, pending |-> {},
                           mread |-> <<>>, err |-> FALSE])
  /\ UNCHANGED <<store, failures, rows, reader, calc>>

\* processEventJob on such a job: analyzeEvent raises before any file is
\* touched, the catch logs and rethrows the error as it is
AnalyzeThrows(j) ==
  /\ jobs[j].pc = "waiting"
  /\ Malformed(j)
  /\ Cardinality(Running) < 1
  /\ \/ jobs[j].attempts > 0
     \/ \A i \in 1..(j - 1) : ~(jobs[i].pc = "waiting" /\ jobs[i].attempts = 0)
  /\ jobs' = [jobs EXCEPT ![j].pc = "running", ![j].pending = {}, ![j].err = TRUE]
  /\ UNCHANGED <<store, failures, rows, reader, calc>>

(***************************************************************************)
(* One worker, one kind, well-formed and malformed jobs.                   *)
(***************************************************************************)
NextMalformed ==
  \/ AddToQueue({KPing}, PoolShapes, MaxSeqJobs)
  \/ AddMalformed(MaxSeqJobs)
  \/ \E j \in JobIds :
       \/ ~Malformed(j) /\ Load(j, 1)
       \/ AnalyzeThrows(j)
       \/ \E file \in ArtifactFiles : WriteSchemaFile(j, file)
       \/ UpdateMetadataRead(j)
       \/ UpdateMetadataWrite(j)
       \/ Complete(j)
       \/ AttemptFailed(j)

SpecMalformed == Init /\ [][NextMalformed]_vars

\* C26: a job whose payload root is not an object is a permanent failure:
\* once its first attempt has failed it is in the failed set, and it is
\* never given a second attempt.
MalformedFailsOnce ==
  \A j \in JobIds :
    (Malformed(j) /\ jobs[j].attempts >= 1) =>
      (jobs[j].attempts = 1 /\ jobs[j].pc = "failed")

(***************************************************************************)
(* The raw-samples directory of one kind. A file is named after the        *)
(* millisecond it was written in (sample-<Date.now()>.json), which is also *)
(* its modification time, so the directory is a set of times.              *)
(***************************************************************************)
MaxSamplesSaved == 12
RawSampleLimits == {1, 2, KeptRawSamples, MaxSamplesSaved}

\* FileManager.cleanOldSamples: the maxSamples files modified last are kept
cleanOldSamples(files, maxSamples) ==
  IF Cardinality(files) <= maxSamples
    THEN files
    ELSE { f \in files : Cardinality({ g \in files : g > f }) < maxSamples }

\* FileManager.saveRawSample: writes the file, then cleans the directory
saveRawSample(files, timestamp) ==
  cleanOldSamples(files \cup {timestamp}, KeptRawSamples)

InitSamples ==
  /\ store = NoStore
  /\ jobs = <<>>
  /\ failures = 0
  /\ rows = 0
  /\ reader = <<>>
  /\ \E limit \in RawSampleLimits :
       calc = [MAX_RAW_SAMPLES |-> limit, now |-> 0, written |-> {}, files |-> {}]

\* a sample is saved one or two milliseconds after the previous one
SaveRawSample ==
  /\ Cardinality(calc.written) < MaxSamplesSaved
  /\ \E elapsed \in {1, 2} :
       LET timestamp == calc.now + elapsed
       IN  calc' = [calc EXCEPT !.now = timestamp,
                                !.written = @ \cup {timestamp},
                                !.files = saveRawSample(@, timestamp)]
  /\ UNCHANGED <<store, jobs, failures, rows, reader>>

NextSamples == SaveRawSample

SpecSamples == InitSamples /\ [][NextSamples]_vars

\* C27: after each raw-sample save the directory holds at most
\* MAX_RAW_SAMPLES files, whatever the configured value is, and the files
\* kept are the most recent ones written.
RawSamplesWithinLimit ==
  /\ Cardinality(calc.files) <= calc.MAX_RAW_SAMPLES
  /\ \A kept \in calc.files : \A gone \in calc.written \ calc.files : gone < kept

(***************************************************************************)
(* The tag bench: trees of strings the truncator left alone, cut as        *)
(* base64 and cut as text (TypeDetector.detectLargeStringType), at the     *)
(* root and as the field "a" of an object.                                 *)
(***************************************************************************)
CutText == [t |-> "string", rep |-> "text"]

TagValues == {Str, CutStr, CutText}

TagTrees ==
  { buildStructureMap(v) : v \in TagValues }
    \cup { buildStructureMap(Obj([k \in {"a"} |-> v])) : v \in TagValues }

InitTags ==
  /\ store = NoStore
  /\ jobs = <<>>
  /\ failures = 0
  /\ rows = 0
  /\ reader = <<>>
  /\ calc \in [a : TagTrees, b : TagTrees, c : TagTrees, steps : {0}]

SpecTags == InitTags /\ [][NextTree]_vars

\* the rule for prior node A, new node B and their merge C
TagRule(A, B, C) ==
  (A.originalType # <<>> /\ B.originalType # <<>> /\ A.originalType # B.originalType) =>
    C.originalType = IF B.originalType = <<"base64">> THEN B.originalType
                     ELSE A.originalType

\* C29: when the prior node A and the new node B both carry an original
\* type and the two differ, their merge C keeps A's, unless B's is base64,
\* in which case C's is base64.
MergeKeepsBase64Tag ==
  \A x, y \in Slots :
    LET A == calc[x]
        B == calc[y]
        C == mergeStructures(A, B)
    IN  /\ TagRule(A, B, C)
        /\ (A.children # <<>> /\ B.children # <<>>) =>
             TagRule(A.children[1]["a"], B.children[1]["a"], C.children[1]["a"])

(***************************************************************************)
(* EventProcessor.calculatePriority: the number handed to queue.add as the *)
(* job's priority. priorityMap is 0 for a name it does not list.           *)
(***************************************************************************)
priorityMap(eventType) ==
  CASE eventType \in {<<"M", "e", "s", "s", "a", "g", "e">>, <<"F", "B", "M", "e", "s", "s",
        "a", "g", "e">>} -> 15
    [] eventType \in {<<"U", "n", "d", "e", "c", "r", "y", "p", "t", "a", "b", "l", "e", "M",
          "e", "s", "s", "a", "g", "e">>} -> 12
    [] eventType \in {<<"P", "i", "c", "t", "u", "r", "e">>} -> 11
    [] eventType \in {<<"M", "e", "d", "i", "a", "R", "e", "t", "r", "y">>} -> 10
    [] eventType \in {<<"A", "u", "d", "i", "o">>, <<"V", "i", "d", "e", "o">>} -> 9
    [] eventType \in {<<"D", "o", "c", "u", "m", "e", "n", "t">>, <<"P", "a", "i", "r", "E",
          "r", "r", "o", "r">>, <<"L", "o", "g", "g", "e", "d", "O", "u", "t">>, <<"T", "e",
          "m", "p", "o", "r", "a", "r", "y", "B", "a", "n">>} -> 8
    [] eventType \in {<<"J", "o", "i", "n", "e", "d", "G", "r", "o", "u", "p">>, <<"G", "r",
          "o", "u", "p", "I", "n", "f", "o">>, <<"N", "e", "w", "s", "l", "e", "t", "t", "e",
          "r", "L", "i", "v", "e", "U", "p", "d", "a", "t", "e">>,
                      <<"C", "l", "i", "e", "n", "t", "O", "u", "t", "d", "a", "t", "e", "d">>,
                            <<"C", "o", "n", "n", "e", "c", "t", "F", "a", "i", "l", "u", "r",
                            "e">>, <<"C", "A", "T", "R", "e", "f", "r", "e", "s", "h", "E",
                            "r", "r", "o", "r">>} -> 7
    [] eventType \in {<<"U", "s", "e", "r", "A", "b", "o", "u", "t">>, <<"N", "e", "w", "s",
          "l", "e", "t", "t", "e", "r">>, <<"N", "e", "w", "s", "l", "e", "t", "t", "e", "r",
          "J", "o", "i", "n">>, <<"N", "e", "w", "s", "l", "e", "t", "t", "e", "r", "L", "e",
          "a", "v", "e">>,
                      <<"N", "e", "w", "s", "l", "e", "t", "t", "e", "r", "M", "u", "t", "e",
                            "C", "h", "a", "n", "g", "e">>, <<"S", "t", "r", "e", "a", "m",
                            "R", "e", "p", "l", "a", "c", "e", "d">>} -> 6
    [] eventType \in {<<"R", "e", "c", "e", "i", "p", "t">>, <<"R", "e", "a", "d", "R", "e",
          "c", "e", "i", "p", "t">>, <<"I", "d", "e", "n", "t", "i", "t", "y", "C", "h", "a",
          "n", "g", "e">>} -> 5
    [] eventType \in {<<"C", "h", "a", "t", "P", "r", "e", "s", "e", "n", "c", "e">>, <<"P",
          "r", "e", "s", "e", "n", "c", "e">>, <<"C", "o", "n", "n", "e", "c", "t", "e", "d">>,
          <<"P", "a", "i", "r", "S", "u", "c", "c", "e", "s", "s">>} -> 4
    [] eventType \in {<<"H", "i", "s", "t", "o", "r", "y", "S", "y", "n", "c">>, <<"O", "f",
          "f", "l", "i", "n", "e", "S", "y", "n", "c", "C", "o", "m", "p", "l", "e", "t", "e",
          "d">>, <<"B", "l", "o", "c", "k", "l", "i", "s", "t">>} -> 3
    [] eventType \in {<<"K", "e", "e", "p", "A", "l", "i", "v", "e", "T", "i", "m", "e", "o",
          "u", "t">>, <<"K", "e", "e", "p", "A", "l", "i", "v", "e", "R", "e", "s", "t", "o",
          "r", "e", "d">>, <<"P", "r", "i", "v", "a", "c", "y", "S", "e", "t", "t", "i", "n",
          "g", "s">>,
                      <<"O", "f", "f", "l", "i", "n", "e", "S", "y", "n", "c", "P", "r", "e",
                            "v", "i", "e", "w">>} -> 2
    [] eventType \in {<<"Q", "R">>, <<"S", "t", "r", "e", "a", "m", "E", "r", "r", "o", "r">>,
          <<"D", "i", "s", "c", "o", "n", "n", "e", "c", "t", "e", "d">>, <<"U", "n", "k", "n",
          "o", "w", "n">>} -> 1
    [] OTHER -> 0

calculatePriority(event) ==
  LET eventType == JsOr(JsOr(JsOr(Get(event, <<"e", "v", "e", "n", "t", "T", "y", "p", "e">>),
                                  OptGet(Get(event, <<"b", "o", "d", "y">>), <<"e", "v", "e",
                                        "n", "t", "T", "y", "p", "e">>)),
                             Get(event, <<"t", "y", "p", "e">>)),
                        JStr(<<>>))
      listed == IF IsString(eventType) THEN priorityMap(eventType.s) ELSE 0
      eventStr == toLowerCase(stringify(event))
      has(word) == includes(eventStr, word)
  IN  IF listed # 0 THEN listed
      ELSE IF has(<<"m", "e", "s", "s", "a", "g", "e">>) /\ ~has(<<"u", "n", "d", "e", "c",
            "r", "y", "p", "t", "a", "b", "l", "e">>) THEN 15
      ELSE IF has(<<"i", "m", "a", "g", "e">>) \/ has(<<"p", "i", "c", "t", "u", "r",
            "e">>) \/ has(<<"p", "h", "o", "t", "o">>) \/ has(<<"t", "h", "u", "m", "b", "n",
            "a", "i", "l">>) THEN 11
      ELSE IF has(<<"a", "u", "d", "i", "o">>) \/ has(<<"v", "o", "i", "c", "e">>) THEN 9
      ELSE IF has(<<"v", "i", "d", "e", "o">>) THEN 9
      ELSE IF has(<<"d", "o", "c", "u", "m", "e", "n", "t">>) THEN 8
      ELSE IF has(<<"g", "r", "o", "u", "p">>) \/ has(<<"p", "a", "r", "t", "i", "c", "i", "p",
            "a", "n", "t">>) THEN 7
      ELSE IF has(<<"r", "e", "c", "e", "i", "p", "t">>) \/ has(<<"r", "e", "a",
            "d">>) \/ has(<<"d", "e", "l", "i", "v", "e", "r", "e", "d">>) THEN 5
      ELSE IF has(<<"p", "r", "e", "s", "e", "n", "c", "e">>) \/ has(<<"o", "n", "l", "i", "n",
            "e">>) \/ has(<<"o", "f", "f", "l", "i", "n", "e">>) THEN 4
      ELSE IF has(<<"c", "o", "n", "n", "e", "c", "t">>) \/ has(<<"p", "a", "i",
            "r">>) \/ has(<<"q", "r">>) THEN 4
      ELSE 5

(***************************************************************************)
(* The queue bench: events the route enqueues, and one worker. calc holds  *)
(* the jobs waiting in the queue (each with the priority queue.add was     *)
(* given and its position in the order of arrival), the job the worker     *)
(* holds, and the number of jobs added so far.                             *)
(***************************************************************************)
MaxQueued == 3

PriorityEvents ==
  { Event(<<>>, <<Prop(<<"e", "v", "e", "n", "t", "T", "y", "p", "e">>, JStr(<<"M", "e", "s",
        "s", "a", "g", "e">>))>>),
    Event(<<>>, <<Prop(<<"e", "v", "e", "n", "t", "T", "y", "p", "e">>, JStr(<<"Q", "R">>))>>),
    Event(<<>>, <<Prop(<<"e", "v", "e", "n", "t", "T", "y", "p", "e">>, JStr(<<"R", "e", "c",
          "e", "i", "p", "t">>))>>),
    Event(<<>>, <<Prop(<<"e", "v", "e", "n", "t", "T", "y", "p", "e">>, JStr(<<"P", "i", "n",
          "g">>))>>),
    Event(<<>>, <<Prop(<<"t", "y", "p", "e">>, JStr(<<"P", "r", "e", "s", "e", "n", "c",
          "e">>))>>) }

InitPriority ==
  /\ store = NoStore
  /\ jobs = <<>>
  /\ failures = 0
  /\ rows = 0
  /\ reader = <<>>
  /\ calc = [waiting |-> <<>>, active |-> <<>>, added |-> 0]

\* EventProcessor.addToQueue: queue.add with the computed priority
QueueAdd ==
  /\ calc.added < MaxQueued
  /\ \E event \in PriorityEvents :
       calc' = [calc EXCEPT
                  !.added = @ + 1,
                  !.waiting = Append(@, [event |-> event, id |-> calc.added + 1,
                                         priority |-> calculatePriority(event)])]
  /\ UNCHANGED <<store, jobs, failures, rows, reader>>

\* the job BullMQ hands to a free worker: of the prioritized jobs the one
\* with the lowest priority number, the oldest of them first
nextJob(waiting) ==
  CHOOSE i \in 1..Len(waiting) :
    \A k \in 1..Len(waiting) :
      \/ waiting[k].priority > waiting[i].priority
      \/ waiting[k].priority = waiting[i].priority /\ k >= i

WorkerTakes ==
  /\ calc.active = <<>>
  /\ calc.waiting # <<>>
  /\ LET i == nextJob(calc.waiting)
     IN  calc' = [calc EXCEPT
                    !.active = << calc.waiting[i] >>,
                    !.waiting = SubSeq(@, 1, i - 1) \o SubSeq(@, i + 1, Len(@))]
  /\ UNCHANGED <<store, jobs, failures, rows, reader>>

\* processEventJob returns and the worker is free again
WorkerDone ==
  /\ calc.active # <<>>
  /\ calc' = [calc EXCEPT !.active = <<>>]
  /\ UNCHANGED <<store, jobs, failures, rows, reader>>

NextPriority == QueueAdd \/ WorkerTakes \/ WorkerDone

SpecPriority == InitPriority /\ [][NextPriority]_vars

\* C30: when a worker is handed a job, every job left waiting has a
\* smaller priority number than the job handed out, or the same number and
\* a later place in the order of arrival.
HighestPriorityFirst ==
  [][(calc.active = <<>> /\ calc'.active # <<>>) =>
       \A k \in 1..Len(calc'.waiting) :
         \/ calc'.waiting[k].priority < calc'.active[1].priority
         \/ /\ calc'.waiting[k].priority = calc'.active[1].priority
            /\ calc'.waiting[k].id > calc'.active[1].id]_vars

(***************************************************************************)
(* The examples of the nodes of a type tree. The trees above leave the     *)
(* field `examples` out; here it is followed through the worker for events *)
(* of one shape, { b?: true, c: [items of mixed types] }, written          *)
(* [b |-> BOOLEAN, c |-> items] with every item a number that stands for   *)
(* one JSON value. The tree of such an event has four nodes: the root, b,  *)
(* c and the item node of c; a tree is [b, examples] with b "absent",      *)
(* "required" or "optional" and examples the list of each node.            *)
(***************************************************************************)
MergedExamplesKept == 20
StoredExamplesKept == 5
ShownExamples == 5
ArrayExamplesKept == 5

\* Array.prototype.slice(-n) and slice(0, n)
lastN(s, n) == IF Len(s) <= n THEN s ELSE SubSeq(s, Len(s) - n + 1, Len(s))
firstN(s, n) == IF Len(s) <= n THEN s ELSE SubSeq(s, 1, n)

\* SchemaComparator.mergeExamples: the first occurrence of each example of
\* base followed by update, of which the last 20 are kept
mergeExamples(baseExamples, updateExamples) ==
  LET combined == baseExamples \o updateExamples
      first == { i \in 1..Len(combined) : \A k \in 1..(i - 1) : combined[k] # combined[i] }
      unique == [n \in 1..Cardinality(first) |->
                   combined[CHOOSE i \in first : Cardinality({ k \in first : k < i }) = n - 1]]
  IN  lastN(unique, MergedExamplesKept)

\* EventAnalyzer.buildStructureMap: every node holds the value it was built
\* from, the item node of an array of mixed types the first 5 items
builtExamples(event) ==
  [b |-> IF event.b THEN "required" ELSE "absent",
   examples |-> [root |-> <<event>>,
                 b |-> IF event.b THEN <<TRUE>> ELSE <<>>,
                 c |-> <<event.c>>,
                 item |-> firstN(event.c, ArrayExamplesKept)]]

\* SchemaComparator.mergeStructures: a child both trees have is merged, a
\* child only one of them has is copied and made optional
mergedExamples(base, update) ==
  [b |-> IF base.b = "absent" /\ update.b = "absent" THEN "absent"
         ELSE IF base.b = "required" /\ update.b = "required" THEN "required"
         ELSE "optional",
   examples |-> [root |-> mergeExamples(base.examples.root, update.examples.root),
                 b |-> IF base.b = "absent" THEN update.examples.b
                       ELSE IF update.b = "absent" THEN base.examples.b
                       ELSE mergeExamples(base.examples.b, update.examples.b),
                 c |-> mergeExamples(base.examples.c, update.examples.c),
                 item |-> mergeExamples(base.examples.item, update.examples.item)]]

\* variant of the serialization that stores every example
storedExamplesKeepAll(structure) == structure

\* EventProcessor.serializeStructureForStorage: the last 5 examples of each
\* node (reconstructStructureFromMetadata reads them back as they are)
storedExamples(structure) ==
  [structure EXCEPT !.examples =
     [node \in DOMAIN structure.examples |->
        lastN(structure.examples[node], StoredExamplesKept)]]

\* SchemaGenerator.generateExamples: the `truncated` list of examples.json
generateExamples(structure) == lastN(structure.examples.root, ShownExamples)

\* EventProcessor.reconstructFromExamples: the merge of the trees of the
\* first n saved examples
RECURSIVE reconstructFromExamples(_, _)
reconstructFromExamples(examples, n) ==
  IF n = 1 THEN builtExamples(examples[1])
  ELSE mergedExamples(reconstructFromExamples(examples, n - 1), builtExamples(examples[n]))

\* EventProcessor.parseExistingStructure on a record [savedStructure,
\* examples]: the saved structure when metadata.json has one, else the
\* structure rebuilt from examples.json
priorExamples(record) ==
  IF record.savedStructure # <<>> THEN record.savedStructure[1]
  ELSE reconstructFromExamples(record.examples, Len(record.examples))

(***************************************************************************)
(* The examples bench: one worker processes events of one kind. calc holds *)
(* the kind's record (<<>> while the kind is new), the trees the last job  *)
(* held (the prior tree, the tree of the event and the tree it saved), the *)
(* number of jobs done and the number of times metadata.json was invalid   *)
(* when updateMetadata read it (written by fs.writeFile, it is cut short   *)
(* while a concurrent job or a crash is in the middle of the write).       *)
(***************************************************************************)
MaxExampleJobs == 5
MaxInvalidReads == 2

\* the items of the n-th event: five items not seen before, or two known ones
ItemLists(n) == { [i \in 1..5 |-> 5 * n + i], <<1, 2>> }

InitExamples ==
  /\ store = NoStore
  /\ jobs = <<>>
  /\ failures = 0
  /\ rows = 0
  /\ reader = <<>>
  /\ calc = [record |-> <<>>, held |-> <<>>, done |-> 0, invalid |-> 0]

\* processEventJob with FileManager.updateMetadata: a schema that changed
\* is merged and saved, and the metadata written keeps the record's
\* savedStructure when metadata.json could be read; a schema that did not
\* change only has its metadata updated, from a partial record without
\* savedStructure
ProcessEvent(event, readable) ==
  /\ calc.done < MaxExampleJobs
  /\ readable \/ calc.invalid < MaxInvalidReads
  /\ LET existing == calc.record
         structure == builtExamples(event)
         prior == IF existing = <<>> THEN <<>> ELSE << priorExamples(existing[1]) >>
         update == existing = <<>> \/ prior[1].b # structure.b
         final == IF update /\ existing # <<>> THEN mergedExamples(prior[1], structure)
                  ELSE structure
         kept == existing # <<>> /\ readable
         saved == IF kept THEN existing[1].savedStructure
                  ELSE IF update THEN << storedExamples(final) >>
                  ELSE <<>>
     IN  calc' = [record |-> << [savedStructure |-> saved,
                                 examples |-> IF update THEN generateExamples(final)
                                              ELSE existing[1].examples] >>,
                  held |-> prior \o <<structure, final>>,
                  done |-> calc.done + 1,
                  invalid |-> calc.invalid + (IF readable THEN 0 ELSE 1)]
  /\ UNCHANGED <<store, jobs, failures, rows, reader>>

NextExamples ==
  \E b \in BOOLEAN, readable \in BOOLEAN :
    \E c \in ItemLists(calc.done) : ProcessEvent([b |-> b, c |-> c], readable)

SpecExamples == InitExamples /\ [][NextExamples]_vars

\* the trees held by the last job and the tree persisted in metadata.json
HeldTrees == { calc.held[i] : i \in 1..Len(calc.held) }

PersistedTrees ==
  IF calc.record # <<>> /\ calc.record[1].savedStructure # <<>>
    THEN { calc.record[1].savedStructure[1] }
    ELSE {}

MostExamples(structure) ==
  CHOOSE n \in { Len(structure.examples[node]) : node \in DOMAIN structure.examples } :
    \A node \in DOMAIN structure.examples : Len(structure.examples[node]) <= n

documentedPriority(name) ==
  CASE name \in {<<"M", "e", "s", "s", "a", "g", "e">>, <<"F", "B", "M", "e", "s", "s", "a",
        "g", "e">>} -> 15
    [] name \in {<<"U", "n", "d", "e", "c", "r", "y", "p", "t", "a", "b", "l", "e", "M", "e",
          "s", "s", "a", "g", "e">>} -> 12
    [] name \in {<<"P", "i", "c", "t", "u", "r", "e">>} -> 11
    [] name \in {<<"M", "e", "d", "i", "a", "R", "e", "t", "r", "y">>} -> 10
    [] name \in {<<"A", "u", "d", "i", "o">>, <<"V", "i", "d", "e", "o">>} -> 9
    [] name \in {<<"D", "o", "c", "u", "m", "e", "n", "t">>} -> 8
    [] name \in {<<"J", "o", "i", "n", "e", "d", "G", "r", "o", "u", "p">>, <<"G", "r", "o",
          "u", "p", "I", "n", "f", "o">>, <<"N", "e", "w", "s", "l", "e", "t", "t", "e", "r",
          "L", "i", "v", "e", "U", "p", "d", "a", "t", "e">>} -> 7
    [] name \in {<<"U", "s", "e", "r", "A", "b", "o", "u", "t">>, <<"N", "e", "w", "s", "l",
          "e", "t", "t", "e", "r">>, <<"N", "e", "w", "s", "l", "e", "t", "t", "e", "r", "J",
          "o", "i", "n">>, <<"N", "e", "w", "s", "l", "e", "t", "t", "e", "r", "L", "e", "a",
          "v", "e">>,
                 <<"N", "e", "w", "s", "l", "e", "t", "t", "e", "r", "M", "u", "t", "e", "C",
                       "h", "a", "n", "g", "e">>} -> 6
    [] name \in {<<"R", "e", "c", "e", "i", "p", "t">>, <<"C", "h", "a", "t", "P", "r", "e",
          "s", "e", "n", "c", "e">>, <<"I", "d", "e", "n", "t", "i", "t", "y", "C", "h", "a",
          "n", "g", "e">>} -> 5
    [] name \in {<<"C", "o", "n", "n", "e", "c", "t", "e", "d">>, <<"P", "a", "i", "r", "S",
          "u", "c", "c", "e", "s", "s">>, <<"P", "r", "e", "s", "e", "n", "c", "e">>} -> 4
    [] name \in {<<"H", "i", "s", "t", "o", "r", "y", "S", "y", "n", "c">>, <<"O", "f", "f",
          "l", "i", "n", "e", "S", "y", "n", "c", "C", "o", "m", "p", "l", "e", "t", "e",
          "d">>, <<"B", "l", "o", "c", "k", "l", "i", "s", "t">>} -> 3
    [] name \in {<<"K", "e", "e", "p", "A", "l", "i", "v", "e", "T", "i", "m", "e", "o", "u",
          "t">>, <<"P", "r", "i", "v", "a", "c", "y", "S", "e", "t", "t", "i", "n", "g",
          "s">>} -> 2
    [] name \in {<<"Q", "R">>, <<"S", "t", "r", "e", "a", "m", "E", "r", "r", "o", "r">>,
          <<"D", "i", "s", "c", "o", "n", "n", "e", "c", "t", "e", "d">>} -> 1
    [] OTHER -> 0

DocumentedNames ==
  { <<"M", "e", "s", "s", "a", "g", "e">>, <<"F", "B", "M", "e", "s", "s", "a", "g", "e">>,
        <<"U", "n", "d", "e", "c", "r", "y", "p", "t", "a", "b", "l", "e", "M", "e", "s", "s",
        "a", "g", "e">>, <<"P", "i", "c", "t", "u", "r", "e">>, <<"M", "e", "d", "i", "a", "R",
        "e", "t", "r", "y">>, <<"A", "u", "d", "i", "o">>,
    <<"V", "i", "d", "e", "o">>, <<"D", "o", "c", "u", "m", "e", "n", "t">>, <<"J", "o", "i",
          "n", "e", "d", "G", "r", "o", "u", "p">>, <<"G", "r", "o", "u", "p", "I", "n", "f",
          "o">>, <<"N", "e", "w", "s", "l", "e", "t", "t", "e", "r", "L", "i", "v", "e", "U",
          "p", "d", "a", "t", "e">>,
    <<"U", "s", "e", "r", "A", "b", "o", "u", "t">>, <<"N", "e", "w", "s", "l", "e", "t", "t",
          "e", "r">>, <<"N", "e", "w", "s", "l", "e", "t", "t", "e", "r", "J", "o", "i", "n">>,
          <<"N", "e", "w", "s", "l", "e", "t", "t", "e", "r", "L", "e", "a", "v", "e">>,
    <<"N", "e", "w", "s", "l", "e", "t", "t", "e", "r", "M", "u", "t", "e", "C", "h", "a", "n",
          "g", "e">>, <<"R", "e", "c", "e", "i", "p", "t">>, <<"C", "h", "a", "t", "P", "r",
          "e", "s", "e", "n", "c", "e">>, <<"I", "d", "e", "n", "t", "i", "t", "y", "C", "h",
          "a", "n", "g", "e">>, <<"C", "o", "n", "n", "e", "c", "t", "e", "d">>,
    <<"P", "a", "i", "r", "S", "u", "c", "c", "e", "s", "s">>, <<"P", "r", "e", "s", "e", "n",
          "c", "e">>, <<"H", "i", "s", "t", "o", "r", "y", "S", "y", "n", "c">>, <<"O", "f",
          "f", "l", "i", "n", "e", "S", "y", "n", "c", "C", "o", "m", "p", "l", "e", "t", "e",
          "d">>, <<"B", "l", "o", "c", "k", "l", "i", "s", "t">>,
    <<"K", "e", "e", "p", "A", "l", "i", "v", "e", "T", "i", "m", "e", "o", "u", "t">>, <<"P",
          "r", "i", "v", "a", "c", "y", "S", "e", "t", "t", "i", "n", "g", "s">>, <<"Q", "R">>,
          <<"S", "t", "r", "e", "a", "m", "E", "r", "r", "o", "r">>, <<"D", "i", "s", "c", "o",
          "n", "n", "e", "c", "t", "e", "d">> }

\* the places calculatePriority reads the type name from: the event's own
\* eventType, the body's eventType (an event of the route), the event's type
NamedEvents(name) ==
  { JsonObject(<<Prop(<<"e", "v", "e", "n", "t", "T", "y", "p", "e">>, JStr(name))>>),
    Event(<<>>, <<Prop(<<"e", "v", "e", "n", "t", "T", "y", "p", "e">>, JStr(name))>>),
    JsonObject(<<Prop(<<"t", "y", "p", "e">>, JStr(name)), Prop(<<"i", "d">>, NumberOf(1))>>) }

InitDocumented ==
  /\ store = NoStore
  /\ jobs = <<>>
  /\ failures = 0
  /\ rows = 0
  /\ reader = <<>>
  /\ \E name \in DocumentedNames : \E event \in NamedEvents(name) :
       calc = [name |-> name, event |-> event, priority |-> 0]

\* addToQueue computes the priority of the event
ComputePriority ==
  /\ calc.priority = 0
  /\ calc' = [calc EXCEPT !.priority = calculatePriority(calc.event)]
  /\ UNCHANGED <<store, jobs, failures, rows, reader>>

NextDocumented == ComputePriority

SpecDocumented == InitDocumented /\ [][NextDocumented]_vars

\* C31: for an event whose type name is a documented well-known name,
\* calculatePriority returns the priority documented for that name, a
\* number within 1..15.
PriorityIsDocumented ==
  calc.priority # 0 =>
    /\ calc.priority = documentedPriority(calc.name)
    /\ calc.priority \in 1..15

(***************************************************************************)
(* Hasher.hashPayload: SHA-256 of JSON.stringify(payload, replacer). The   *)
(* model takes the JSON text itself as the hash (SHA-256 is treated as     *)
(* injective). JSON.stringify writes the keys of an object in the order    *)
(* the object holds them.                                                  *)
(***************************************************************************)
LARGE_STRING_LENGTH == 10000

\* Hasher.replacer, applied by JSON.stringify to every value it writes
RECURSIVE replacer(_)
replacer(value) ==
  CASE value.t = "undefined" -> JNull
    [] value.t = "string" ->
         IF Len(value.s) > LARGE_STRING_LENGTH THEN JStr(<<"[", "L", "A", "R", "G", "E", "_",
               "S", "T", "R", "I", "N", "G", "]">>) ELSE value
    [] value.t = "array" ->
         [value EXCEPT !.items = [i \in 1..Len(value.items) |-> replacer(value.items[i])]]
    [] value.t = "object" ->
         [value EXCEPT !.props = [i \in 1..Len(value.props) |->
                                    Prop(value.props[i].k, replacer(value.props[i].v))]]
    [] OTHER -> value

hashPayload(payload) == stringify(replacer(payload))

(***************************************************************************)
(* The hash bench: two payloads, objects of one or two keys holding        *)
(* numbers, strings and objects of the same kind, in either key order.     *)
(***************************************************************************)
HashLeaves == { NumberOf(1), JStr(<<"x">>) }

InOrders(k1, v1, k2, v2) ==
  { JsonObject(<<Prop(k1, v1), Prop(k2, v2)>>), JsonObject(<<Prop(k2, v2), Prop(k1, v1)>>) }

InnerObjects ==
  UNION { InOrders(<<"a">>, v1, <<"b">>, v2) : v1 \in HashLeaves, v2 \in HashLeaves }

HashPayloads ==
  InnerObjects
    \cup UNION { InOrders(<<"p">>, inner, <<"q">>, leaf) : inner \in InnerObjects,
          leaf \in {NumberOf(1)} }
    \cup { JsonObject(<<Prop(<<"a">>, NumberOf(1))>>) }

\* two JSON values that are equal up to the order of their object keys
RECURSIVE sameJson(_, _)
sameJson(x, y) ==
  IF x.t # y.t THEN FALSE
  ELSE CASE x.t = "object" ->
              /\ { x.props[i].k : i \in 1..Len(x.props) } = { y.props[i].k : i \in 1..Len(y.props) }
              /\ \A i \in 1..Len(x.props) : sameJson(x.props[i].v, Get(y, x.props[i].k))
         [] x.t = "array" ->
              /\ Len(x.items) = Len(y.items)
              /\ \A i \in 1..Len(x.items) : sameJson(x.items[i], y.items[i])
         [] OTHER -> x = y

InitHash ==
  /\ store = NoStore
  /\ jobs = <<>>
  /\ failures = 0
  /\ rows = 0
  /\ reader = <<>>
  /\ \E x \in HashPayloads, y \in HashPayloads :
       calc = [x |-> x, y |-> y, hashes |-> <<>>]

\* saveEventToDatabase hashes each of the two payloads
HashBoth ==
  /\ calc.hashes = <<>>
  /\ calc' = [calc EXCEPT !.hashes = <<hashPayload(calc.x), hashPayload(calc.y)>>]
  /\ UNCHANGED <<store, jobs, failures, rows, reader>>

NextHash == HashBoth

SpecHash == InitHash /\ [][NextHash]_vars

\* C32: two payloads that are equal as JSON values up to the order of
\* their object keys, at any depth, have the same hashPayload result.
HashIgnoresKeyOrder ==
  (calc.hashes # <<>> /\ sameJson(calc.x, calc.y)) => calc.hashes[1] = calc.hashes[2]

\* the keys of a node's children map, none when the node has no map
ChildKeys(node) == IF node.children = <<>> THEN {} ELSE DOMAIN node.children[1]

\* the rule for nodes A and B and their merge C, at every depth
RECURSIVE ChildrenRule(_, _, _)
ChildrenRule(A, B, C) ==
  /\ C.optional = (A.optional \/ B.optional)
  /\ ChildKeys(C) = ChildKeys(A) \cup ChildKeys(B)
  /\ \A k \in ChildKeys(C) :
       IF k \in ChildKeys(A) /\ k \in ChildKeys(B)
         THEN ChildrenRule(A.children[1][k], B.children[1][k], C.children[1][k])
       ELSE IF k \in ChildKeys(A)
         THEN C.children[1][k] = [A.children[1][k] EXCEPT !.optional = TRUE]
       ELSE C.children[1][k] = [B.children[1][k] EXCEPT !.optional = TRUE]

\* C33: for all trees A and B the children of mergeStructures(A, B) are
\* the keys of A's children together with those of B's; a key of both maps
\* to the merge of the two children, a key of one only to that child made
\* optional; and every merged node is optional when A's or B's node is.
MergeChildrenRule ==
  \A x, y \in Slots : ChildrenRule(calc[x], calc[y], mergeStructures(calc[x], calc[y]))

\* two trees, one of them produced by the comparator, of which one has a
\* key the other lacks, and which share a key that only the second has
\* optional
MergeChildrenRuleWitness ==
  /\ calc.steps > 0
  /\ ChildKeys(calc.a) \ ChildKeys(calc.b) # {}
  /\ \E k \in ChildKeys(calc.a) \cap ChildKeys(calc.b) :
       ~calc.a.children[1][k].optional /\ calc.b.children[1][k].optional
  /\ MergeChildrenRule

\* the first two payloads of the kind carry field b as a number, then as a
\* string, and both were processed
NumberThenString ==
  /\ Len(jobs) >= 2
  /\ jobs[1].payload = Shape(<<Num>>, <<>>)
  /\ jobs[2].payload = Shape(<<Str>>, <<>>)
  /\ Settled(2)

\* C34: after two payloads of one kind whose field is a number in the
\* first and a string in the second, the persisted node of the field has
\* type union and the generated validator renders the field as a union.
UnionFormation ==
  NumberThenString =>
    /\ PersistedTree(2).children[1]["b"].type = "union"
    /\ store[Folder(2)].zod[1].content.props["b"].schema.z = "union"

(***************************************************************************)
(* The array bench: an array of one to three objects, each with the field  *)
(* a, the field b, both or none, analyzed by buildStructureMap.            *)
(***************************************************************************)
MaxItems == 3

ItemObjects ==
  { Obj(NoKids), Obj([k \in {"a"} |-> Num]), Obj([k \in {"b"} |-> Str]),
    Obj([k \in {"a", "b"} |-> IF k = "a" THEN Num ELSE Str]) }

ItemArrays == UNION { [1..n -> ItemObjects] : n \in 1..MaxItems }

InitItems ==
  /\ store = NoStore
  /\ jobs = <<>>
  /\ failures = 0
  /\ rows = 0
  /\ reader = <<>>
  /\ \E items \in ItemArrays : calc = [items |-> items, structure |-> <<>>]

\* EventAnalyzer.analyzeEvent builds the tree of the array
AnalyzeArray ==
  /\ calc.structure = <<>>
  /\ calc' = [calc EXCEPT !.structure = << buildStructureMap(Arr(calc.items)) >>]
  /\ UNCHANGED <<store, jobs, failures, rows, reader>>

NextItems == AnalyzeArray

SpecItems == InitItems /\ [][NextItems]_vars

\* C35: for an array whose elements all have the same type, the item type
\* is one tree merged across all elements: every field carried by any
\* element of an array of objects is a child of the item type.
ItemTypeCoversAllElements ==
  (calc.structure # <<>> /\ Cardinality(detectArrayItemTypes(calc.items)) = 1) =>
    /\ calc.structure[1].arrayItemType # <<>>
    /\ \A i \in 1..Len(calc.items) :
         DOMAIN calc.items[i].kids \subseteq ChildKeys(calc.structure[1].arrayItemType[1])
(***************************************************************************)
(* analyzeEvent on whole events.  The truncator walks the event the        *)
(* classifier reads: an object is the sequence of its properties, a path   *)
(* is the string truncateEvent builds ("body.data", "entry[0].id").        *)
(***************************************************************************)
TruncateFieldTexts == { <<"b", "a", "s", "e", "6", "4">>, <<"J", "P", "E", "G", "T", "h", "u",
      "m", "b", "n", "a", "i", "l">>, <<"t", "h", "u", "m", "b", "n", "a", "i", "l">>, <<"d",
      "a", "t", "a">>, <<"i", "m", "a", "g", "e">> }

\* path.replace(/\[\d+\]/g, '')
RECURSIVE removeIndices(_)
removeIndices(path) ==
  IF path = <<>> THEN <<>>
  ELSE IF /\ path[1] = "["
          /\ \E n \in 3..Len(path) :
               /\ path[n] = "]"
               /\ \A i \in 2..(n - 1) : IsDigit(path[i])
    THEN LET n == CHOOSE n \in 3..Len(path) :
                    path[n] = "]" /\ \A i \in 2..(n - 1) : IsDigit(path[i])
         IN removeIndices(SubSeq(path, n + 1, Len(path)))
  ELSE <<path[1]>> \o removeIndices(Tail(path))

\* TruncateService.extractFieldName on the path string
fieldNameOf(path) ==
  LET parts == split(removeIndices(path), ".")
  IN parts[Len(parts)]

\* TypeDetector.shouldTruncateField on the strings of an event
shouldTruncateText(path, value) ==
  \/ \E field \in TruncateFieldTexts :
       includes(toLowerCase(fieldNameOf(path)), toLowerCase(field))
  \/ Len(value) > TRUNCATE_MAX_LENGTH * 10 /\ isBase64String(value)

\* TruncateService.truncateString on the strings of an event
truncateText(value, path) ==
  IF ~shouldTruncateText(path, value) THEN value
  ELSE Substring0(value, TRUNCATE_MAX_LENGTH) \o <<".", ".", ".">> \o truncateMarker

\* TruncateService.deepTruncate on an event: strings through
\* truncateString, a new array through map, a new object entry by entry
RECURSIVE deepTruncateEvent(_, _)
deepTruncateEvent(obj, path) ==
  IF obj.t = "string" THEN JStr(truncateText(obj.s, path))
  ELSE IF obj.t = "array"
    THEN Arr([i \in 1..Len(obj.items) |->
                deepTruncateEvent(obj.items[i],
                                  path \o <<"[">> \o NumberToString(i - 1) \o <<"]">>)])
  ELSE IF obj.t = "object"
    THEN JsonObject([i \in 1..Len(obj.props) |->
           Prop(obj.props[i].k,
                deepTruncateEvent(obj.props[i].v,
                                  IF path # <<>> THEN path \o <<".">> \o obj.props[i].k
                                  ELSE obj.props[i].k))])
  ELSE obj

\* TruncateService.truncateEvent: the truncated copy, and the event object
\* of the caller as the call leaves it
truncateEvent(event) ==
  [truncated |-> deepTruncateEvent(event, <<>>), event |-> event]

\* analyzeEvent with the two steps in the other order: the kind is taken
\* from the truncated copy
analyzeEventAfterTruncating(event) ==
  LET cut == truncateEvent(event)
  IN [eventType |-> extractEventType(cut.truncated),
      truncated |-> cut.truncated,
      event |-> cut.event]

\* EventAnalyzer.analyzeEvent: the kind first, from the event as received,
\* then the truncated copy the type tree is built from
analyzeEvent(event) ==
  LET eventType == extractEventType(event)
      cut == truncateEvent(event)
  IN [eventType |-> eventType,
      truncated |-> cut.truncated,
      event |-> cut.event]

\* bodies in which the truncator cuts a string: short and empty texts
\* under truncate fields, some of them where the classifier looks
CutBodies ==
  { <<Prop(<<"t", "y", "p", "e">>, JStr(<<"R", "e", "c", "e", "i", "v", "e", "d", "C", "a",
        "l", "l", "b", "a", "c", "k">>)), Prop(<<"i", "n", "s", "t", "a", "n", "c", "e", "I",
        "d">>, JStr(<<"i", "1">>)),
      Prop(<<"i", "m", "a", "g", "e">>, JStr(<<>>))>>,
    <<Prop(<<"t", "y", "p", "e">>, JStr(<<"R", "e", "c", "e", "i", "v", "e", "d", "C", "a",
          "l", "l", "b", "a", "c", "k">>)), Prop(<<"i", "n", "s", "t", "a", "n", "c", "e", "I",
          "d">>, JStr(<<"i", "1">>)),
      Prop(<<"i", "m", "a", "g", "e">>, JStr(<<"i">>))>>,
    <<Prop(<<"d", "a", "t", "a">>, JsonObject(<<Prop(<<"e", "v", "e", "n", "t">>,
         JsonObject(<<Prop(<<"m", "e", "s", "s", "a", "g", "e">>, JsonObject(<<Prop(<<"i", "m",
               "a", "g", "e">>, JStr(<<>>))>>))>>))>>))>>,
    <<Prop(<<"d", "a", "t", "a">>, JsonObject(<<Prop(<<"e", "v", "e", "n", "t">>,
         JsonObject(<<Prop(<<"m", "e", "s", "s", "a", "g", "e">>,
            JsonObject(<<Prop(<<"J", "P", "E", "G", "T", "h", "u", "m", "b", "n", "a", "i",
                  "l">>, JStr(<<>>))>>))>>))>>))>>,
    <<Prop(<<"d", "a", "t", "a">>, JStr(<<"p", "i", "n", "g">>))>>,
    <<Prop(<<"i", "m", "a", "g", "e">>, JStr(<<"i">>)), Prop(<<"e", "v", "e", "n", "t", "T",
          "y", "p", "e">>, JStr(<<"P", "i", "n", "g">>))>>,
    <<Prop(<<"m", "e", "d", "i", "a">>, Arr(<<JsonObject(<<Prop(<<"t", "h", "u", "m", "b", "n",
          "a", "i", "l">>, JStr(<<"A", "A", "A", "A">>))>>)>>))>> }

AnalyzedEvents ==
  { Event(headers, body) : headers \in BenchHeaders, body \in CutBodies \cup OtherBodies }
  \cup DirectEvents

InitAnalyze ==
  /\ store = NoStore
  /\ jobs = <<>>
  /\ failures = 0
  /\ rows = 0
  /\ reader = <<>>
  /\ \E event \in AnalyzedEvents :
       calc = [received |-> event, event |-> event, eventType |-> <<>>,
               truncated |-> JUndefined, outcome |-> "waiting"]

\* the worker calls analyzeEvent on the event of the job; the call fails
\* when the classifier raises
AnalyzeReceived ==
  /\ calc.outcome = "waiting"
  /\ \E result \in {analyzeEvent(calc.event)} :
       calc' = [calc EXCEPT !.event = result.event,
                             !.eventType = result.eventType,
                             !.truncated = result.truncated,
                             !.outcome = IF result.eventType = TypeError THEN "failed"
                                         ELSE "analyzed"]
  /\ UNCHANGED <<store, jobs, failures, rows, reader>>

NextAnalyze == AnalyzeReceived

SpecAnalyze == InitAnalyze /\ [][NextAnalyze]_vars

Difference(type, path) == [type |-> type, path |-> path]

RECURSIVE compareDFS(_, _, _)
\* the entries for the children maps of two nodes: a Map is truthy also
\* when it is empty, and a key of one map only is added or removed
compareObjectStructures(newNode, existingNode, path) ==
  IF newNode.children = <<>> /\ existingNode.children = <<>> THEN {}
  ELSE LET newKeys == IF newNode.children = <<>> THEN {} ELSE DOMAIN newNode.children[1]
           existingKeys == IF existingNode.children = <<>> THEN {}
                           ELSE DOMAIN existingNode.children[1]
       IN UNION { IF key \in newKeys /\ key \notin existingKeys
                    THEN {Difference("field_added", Append(path, key))}
                  ELSE IF key \notin newKeys /\ key \in existingKeys
                    THEN {Difference("field_removed", Append(path, key))}
                  ELSE compareDFS(newNode.children[1][key], existingNode.children[1][key],
                                  Append(path, key)) :
                  key \in newKeys \cup existingKeys }

\* the entries for the item types of two nodes
compareArrayStructures(newNode, existingNode, path) ==
  LET newArrayType == newNode.arrayItemType
      existingArrayType == existingNode.arrayItemType
  IN IF newArrayType # <<>> /\ existingArrayType # <<>>
       THEN compareDFS(newArrayType[1], existingArrayType[1], Append(path, "[]"))
     ELSE IF newArrayType # <<>>
       THEN {Difference("field_added", Append(path, "[]"))}
     ELSE IF existingArrayType # <<>>
       THEN {Difference("field_removed", Append(path, "[]"))}
     ELSE {}

compareDFS(newNode, existingNode, path) ==
  (IF newNode.type # existingNode.type THEN {Difference("type_change", path)} ELSE {})
  \cup (IF newNode.optional # existingNode.optional
          THEN {Difference("optional_change", path)} ELSE {})
  \cup compareObjectStructures(newNode, existingNode, path)
  \cup compareArrayStructures(newNode, existingNode, path)

findDifferences(newStructure, existingStructure) ==
  compareDFS(newStructure, existingStructure, <<>>)

\* C37: the difference enumeration agrees with the fingerprint comparison:
\* for all trees X and Y, findDifferences(X, Y) is empty if and only if
\* compareStructures(X, Y) is true.
DifferencesAgreeWithFingerprint ==
  \A x, y \in Slots :
    (findDifferences(calc[x], calc[y]) = {}) <=> compareStructures(calc[x], calc[y])

\* the direction the code keeps: two trees with the same fingerprint have
\* no difference
SameFingerprintNoDifference ==
  \A x, y \in Slots :
    compareStructures(calc[x], calc[y]) => findDifferences(calc[x], calc[y]) = {}

\* the same equivalence on pairs of trees without an empty children map
DifferencesAgreeWithoutEmptyObjects ==
  \A x, y \in Slots :
    (~HasEmptyObject(calc[x]) /\ ~HasEmptyObject(calc[y])) =>
      ((findDifferences(calc[x], calc[y]) = {}) <=> compareStructures(calc[x], calc[y]))
(***************************************************************************)
(* The truncation report on the texts of a payload: truncateEvent is       *)
(* deepTruncate followed by extractMetadata, whose findTruncatedFields     *)
(* walks the truncated copy beside the original and lists every string of  *)
(* the copy that contains the marker.                                      *)
(***************************************************************************)
RECURSIVE findTruncatedFieldsIn(_, _, _)
findTruncatedFieldsIn(original, truncated, path) ==
  IF truncated.t = "string" /\ includes(truncated.s, truncateMarker) THEN {path}
  ELSE IF truncated.t = "array"
    THEN UNION { IF original.t = "array" /\ i <= Len(original.items)
                   THEN findTruncatedFieldsIn(original.items[i], truncated.items[i],
                                              Append(path, IndexName(i)))
                   ELSE {} :
                 i \in 1..Len(truncated.items) }
  ELSE IF truncated.t = "object"
    THEN UNION { IF original.t = "object" /\ k \in DOMAIN original.kids
                   THEN findTruncatedFieldsIn(original.kids[k], truncated.kids[k],
                                              Append(path, k))
                   ELSE {} :
                 k \in DOMAIN truncated.kids }
  ELSE {}

\* the paths at which the truncated copy holds another string than the
\* original
RECURSIVE changedStrings(_, _, _)
changedStrings(original, truncated, path) ==
  IF original.t = "string" THEN (IF truncated # original THEN {path} ELSE {})
  ELSE IF original.t = "array"
    THEN UNION { changedStrings(original.items[i], truncated.items[i],
                                Append(path, IndexName(i))) :
                 i \in 1..Len(original.items) }
  ELSE IF original.t = "object"
    THEN UNION { changedStrings(original.kids[k], truncated.kids[k], Append(path, k)) :
                 k \in DOMAIN original.kids }
  ELSE {}

\* texts that quote the marker: a log line, a text truncated by an earlier
\* hop
MarkerStrings ==
  { JStr(truncateMarker),
    JStr(<<"s", "e", "e", " ", "[", "T", "R", "U", "N", "C", "A", "T", "E", "D", "]">>),
    JStr(Repeat("A", 3) \o <<".", ".", ".">> \o truncateMarker) }

ReportedPayloads ==
  TruncatorPayloads
  \cup { Obj([k \in {"data", "name"} |-> IF k = "data" THEN v ELSE w]) :
           v \in BenchLeaves \cup MarkerStrings, w \in MarkerStrings }
  \cup { Obj([k \in {"name"} |-> Arr(<<v, w>>)]) :
           v \in MarkerStrings, w \in BenchStrings }

InitReport ==
  /\ store = NoStore
  /\ jobs = <<>>
  /\ failures = 0
  /\ rows = 0
  /\ reader = <<>>
  /\ \E p \in ReportedPayloads :
       calc = [event |-> p, truncated |-> <<>>, truncatedFields |-> {}, done |-> FALSE]

\* TruncateService.truncateEvent: the truncated copy and its report
ReportTruncation ==
  /\ ~calc.done
  /\ LET truncated == deepTruncate(calc.event, <<>>)
     IN calc' = [calc EXCEPT
                   !.truncated = <<truncated>>,
                   !.truncatedFields = findTruncatedFieldsIn(calc.event, truncated, <<>>),
                   !.done = TRUE]
  /\ UNCHANGED <<store, jobs, failures, rows, reader>>

NextReport == ReportTruncation

SpecReport == InitReport /\ [][NextReport]_vars

\* C38: the truncation report is exact: for every payload, a path is listed
\* in truncatedFields if and only if truncateEvent changed the string at
\* that path.
TruncationReportExact ==
  calc.done =>
    calc.truncatedFields = changedStrings(calc.event, calc.truncated[1], <<>>)

\* the direction the code keeps: every string truncateEvent changed is
\* listed
ChangedStringsAreReported ==
  calc.done =>
    changedStrings(calc.event, calc.truncated[1], <<>>) \subseteq calc.truncatedFields

\* the report is exact for the payloads none of whose strings quotes the
\* marker
ReportExactWithoutMarkers ==
  (calc.done /\ calc.event \in TruncatorPayloads) =>
    calc.truncatedFields = changedStrings(calc.event, calc.truncated[1], <<>>)
(***************************************************************************)
(* Isolation of kinds: the worker pool on payloads of three kinds, two of  *)
(* which differ only in a character sanitizeEventType rewrites             *)
(* ("z_api/my type" and "z_api/my_type", both from the default case of     *)
(* detectZApiEventType).                                                   *)
(***************************************************************************)
KUnderscored == << <<"w">>, <<"m", "_", "a">> >>

FrameKinds == {KPing, KSpaced, KUnderscored}

MaxFrameJobs == 2

NextFrame ==
  \/ AddToQueue(FrameKinds, PoolShapes, MaxFrameJobs)
  \/ \E j \in JobIds :
       \/ Load(j, PoolSize)
       \/ \E file \in ArtifactFiles : WriteSchemaFile(j, file)
       \/ UpdateMetadataRead(j)
       \/ UpdateMetadataWrite(j)
       \/ Complete(j)

SpecFrame == Init /\ [][NextFrame]_vars

\* the files of a kind: what its folder holds (validator, interface,
\* examples, metadata, raw samples), <<>> while the folder does not exist
FilesOf(st, kind) ==
  IF EventTypeFolder(kind) \in DOMAIN st THEN <<st[EventTypeFolder(kind)]>> ELSE <<>>

\* C39: processing a payload of kind K changes the files of K only: in
\* every step of a job of kind K, under any interleaving, the files of
\* every other kind are the same before and after.
OtherKindsUntouched ==
  [][\A j \in DOMAIN jobs :
       jobs'[j] # jobs[j] =>
         \A kind \in FrameKinds \ {jobs[j].kind} :
           FilesOf(store', kind) = FilesOf(store, kind)]_vars

\* the frame the code keeps: a step of a job leaves every folder but the
\* job's own as it was
OtherFoldersUntouched ==
  [][\A j \in DOMAIN jobs :
       jobs'[j] # jobs[j] =>
         \A kind \in FrameKinds :
           EventTypeFolder(kind) # EventTypeFolder(jobs[j].kind) =>
             FilesOf(store', kind) = FilesOf(store, kind)]_vars

====
